---------------------------- MODULE Spec2Model ----------------------------
(***************************************************************************)
(* KeyDrive: the layer engine (LayoutManager) and the event channel        *)
(* (InputHandlerImpl::enqueueEvent / getEvent).                            *)
(*                                                                         *)
(* Strings whose bytes the code inspects (layer symbols, layer-key ids,    *)
(* layer type names) are sequences of byte values 0..255.  Strings the     *)
(* code only compares or uses as map keys (key names, layer names) are     *)
(* TLA+ strings.  std::optional<char32_t> is a set with at most one code   *)
(* point.                                                                  *)
(***************************************************************************)
EXTENDS Integers, Sequences, FiniteSets, TLC

VARIABLES
    layout,       \* LayoutManager::layout, the loaded layout document
    keyPositions, \* LayoutManager::keyPositions
    layerKeys,    \* LayoutManager::layerKeys
    toggleOrder,  \* iteration order of the unordered_map layerState.toggles
    layerState,   \* LayoutManager::layerState
    state,        \* LayoutManager::state (string -> string)
    stateFile,    \* state.yaml: [exists, node]
    last,         \* history: the most recent layer-engine call
    prev,         \* history: the call before it
    pressedHold,  \* history: hold key codes pressed with no release handled since
    lastHoldKey,  \* history: key code of the most recent hold-type press (-1: none)
    eventQueue,   \* InputHandlerImpl::eventQueue
    queueMutex,   \* owner of InputHandlerImpl::queueMutex ("free" when unlocked)
    stopThread,   \* InputHandlerImpl::stopThread
    running,      \* main.cpp: the global flag the dispatch loop tests
    pcCapture,    \* capture thread's position inside enqueueEvent
    pcDispatch,   \* dispatch thread's position inside getEvent
    curEvent,     \* the event the capture thread is enqueueing
    waitLeft,     \* timeout of the running getEvent not yet elapsed
    pushed,       \* history: every event pushed, in push order
    popped,       \* history: every event getEvent returned, in return order
    device,       \* raw events the device holds, not yet read by libevdev_next_event
    hasScan,      \* the device reports a scan code (EV_MSC) before each key event
    usedKeys,     \* the keys the user touches in this run
    rawKeys,      \* history: every EV_KEY event the device has produced, in order
    failing,      \* the next device read fails (not with EAGAIN)
    failuresLeft, \* device read failures still to come in this run
    keyRepeat,    \* InputHandlerImpl::keyRepeat (lastTime kept as its age in ms)
    modifiers,    \* InputHandlerImpl::modifiers
    exitSequence, \* InputHandlerImpl::exitSequence
    sinceExitTimeout, \* age in ms of InputHandlerImpl::exitTimeout
    exited,       \* _exit(0) has been called
    pcLoop,       \* capture thread's position inside inputLoop
    rc,           \* processAvailableEvents: rc after its read loop
    pcMain,       \* main thread's position inside main()
    mainEvent,    \* main: the event getEvent returned to the loop body
    modifierState, \* main: the copy of the modifier map getModifierState returned
    trace,        \* history: the calls main has made, in order
    pcInput,      \* capture thread's position inside processInputEvent
    curRaw,       \* the raw key event processInputEvent is working on
    threadDone,   \* the capture thread has left inputLoop
    codePoint,    \* the char32_t given to utf32ToUtf8 (-1: none)
    utf8,         \* the byte string given to stringToChar32
    decoded,      \* the optional stringToChar32 returned
    pcUtf,        \* position in the conversion run
    found,        \* findPhysicalKeyboard: the devices readdir has yielded, in order
    candidates,   \* findPhysicalKeyboard: the vector candidates
    deviceName,   \* InputHandlerImpl::deviceName
    pcSelect,     \* position inside findPhysicalKeyboard
    pcLoad,       \* position inside LayoutManager::loadLayout
    layerIt       \* loadLayout: the layers its iterator has not visited yet

layerVars == <<layout, keyPositions, layerKeys, toggleOrder, layerState, state, stateFile, last, prev,
               pressedHold, lastHoldKey>>
chanVars == <<eventQueue, queueMutex, stopThread, running, pcCapture, pcDispatch,
              curEvent, waitLeft, pushed, popped>>
capVars == <<device, hasScan, usedKeys, rawKeys, failing, failuresLeft, keyRepeat, modifiers,
             exitSequence, sinceExitTimeout, exited, pcLoop, rc>>
mainVars == <<pcMain, mainEvent, modifierState, trace, pcInput, curRaw, threadDone>>
utfVars == <<codePoint, utf8, decoded, pcUtf>>
selVars == <<found, candidates, deviceName, pcSelect>>
loadVars == <<pcLoad, layerIt>>
restVars == <<utfVars, selVars, loadVars>>
otherVars == <<mainVars, restVars>>
vars == <<layerVars, chanVars, capVars, otherVars>>

(***************************************************************************)
(* Byte strings.                                                           *)
(***************************************************************************)
s_x == <<120>>
s_y == <<121>>
s_z == <<122>>
s_a == <<97>>
s_A == <<65>>
s_ly1 == <<108, 121, 49>>
s_ly2 == <<108, 121, 50>>
s_ly3 == <<108, 121, 51>>
s_ly1_quoted == <<39, 108, 121, 49, 39, 32>>       \* 'ly1' followed by a space
s_sym == <<115, 121, 109>>                         \* sym
s_hold == <<104, 111, 108, 100>>                   \* hold
s_Hold == <<72, 111, 108, 100>>                    \* Hold
s_toggle == <<116, 111, 103, 103, 108, 101>>       \* toggle
s_onetime == <<111, 110, 101, 116, 105, 109, 101>> \* onetime
s_eacute == <<195, 169>>                           \* U+00E9 in UTF-8
s_esc_n == <<92, 110>>                             \* backslash n
s_esc_t == <<92, 116>>                             \* backslash t
s_esc_b == <<92, 98>>                              \* backslash b
s_esc_x1b == <<92, 120, 49, 98>>                   \* backslash x1b
s_space == <<32>>
s_empty == <<>>

nullopt == {}
Some(c) == {c}

(***************************************************************************)
(* toLower, startsWith, parseLayerType (anonymous namespace helpers).      *)
(***************************************************************************)
toLower(str) ==
    [i \in 1..Len(str) |-> IF str[i] >= 65 /\ str[i] <= 90 THEN str[i] + 32 ELSE str[i]]

startsWith(str, prefix) ==
    /\ Len(str) >= Len(prefix)
    /\ SubSeq(str, 1, Len(prefix)) = prefix

parseLayerType(typeStr) ==
    LET lowerType == toLower(typeStr) IN
    IF lowerType = s_hold THEN "Hold"
    ELSE IF lowerType = s_toggle THEN "Toggle"
    ELSE IF lowerType = s_onetime THEN "Onetime"
    ELSE "Hold"

(***************************************************************************)
(* stringToChar32: the escapes, then UTF-8 decoding of the leading         *)
(* sequence.  (b & 0x80) = 0 is b < 128; (b & 0xE0) = 0xC0 is              *)
(* 192 <= b < 224; (b & 0xC0) = 0x80 is 128 <= b < 192; and so on.         *)
(***************************************************************************)
IsCont(b) == b >= 128 /\ b < 192

stringToChar32(str) ==
    IF Len(str) = 0 THEN nullopt
    ELSE IF str = s_esc_n THEN Some(10)
    ELSE IF str = s_esc_t THEN Some(9)
    ELSE IF str = s_esc_b THEN Some(8)
    ELSE IF str = s_esc_x1b THEN Some(27)
    ELSE IF str = s_space THEN Some(32)
    ELSE LET firstByte == str[1] IN
         IF firstByte < 128 THEN Some(firstByte)
         ELSE IF firstByte >= 192 /\ firstByte < 224 /\ Len(str) >= 2 THEN
             IF IsCont(str[2])
             THEN Some((firstByte - 192) * 64 + (str[2] - 128))
             ELSE nullopt
         ELSE IF firstByte >= 224 /\ firstByte < 240 /\ Len(str) >= 3 THEN
             IF IsCont(str[2]) /\ IsCont(str[3])
             THEN Some((firstByte - 224) * 4096 + (str[2] - 128) * 64 + (str[3] - 128))
             ELSE nullopt
         ELSE IF firstByte >= 240 /\ firstByte < 248 /\ Len(str) >= 4 THEN
             IF IsCont(str[2]) /\ IsCont(str[3]) /\ IsCont(str[4])
             THEN Some((firstByte - 240) * 262144 + (str[2] - 128) * 4096
                       + (str[3] - 128) * 64 + (str[4] - 128))
             ELSE nullopt
         ELSE nullopt

(***************************************************************************)
(* cleanChar: erase double quotes, single quotes and isspace characters.   *)
(***************************************************************************)
IsSpace(b) == b \in {9, 10, 11, 12, 13, 32}

cleanChar(charStr) ==
    LET keep(b) == b # 34 /\ b # 39 /\ ~IsSpace(b) IN
    SelectSeq(charStr, keep)


(***************************************************************************)
(* Layout documents (<layoutsDir>/<name>.kbd).  "source" is the ordered    *)
(* key list, "layers" maps a layer name to its symbols, "layer_keys" is    *)
(* the YAML map layer name -> {key, type} in document order.  Every layer  *)
(* below already has as many symbols as "source" has keys.                 *)
(***************************************************************************)
LayerKeyEntry(layer, keys, hasType, type) ==
    [layer |-> layer, keys |-> keys, hasType |-> hasType, type |-> type]

\* The scenario layout: base [x, ly1], sym [y, z], ly1 = hold sym.
DocScenario ==
    [source |-> <<"key_a", "key_b">>,
     layers |-> [l \in {"base", "sym"} |->
                    IF l = "base" THEN <<s_x, s_ly1>> ELSE <<s_y, s_z>>],
     layer_keys |-> <<LayerKeyEntry("sym", <<s_ly1>>, TRUE, s_hold)>>]

\* One hold, one toggle and one onetime layer.
DocRich ==
    [source |-> <<"key_a", "key_b", "key_c", "key_d">>,
     layers |-> [l \in {"base", "sym", "nav", "acc"} |->
                    CASE l = "base" -> <<s_a, s_ly1, s_ly2, s_ly3>>
                      [] l = "sym"  -> <<s_A, s_x, s_x, s_x>>
                      [] l = "nav"  -> <<s_eacute, s_y, s_y, s_y>>
                      [] l = "acc"  -> <<s_esc_n, s_z, s_z, s_z>>],
     layer_keys |-> <<LayerKeyEntry("sym", <<s_ly1>>, TRUE, s_hold),
                      LayerKeyEntry("nav", <<s_ly2>>, TRUE, s_toggle),
                      LayerKeyEntry("acc", <<s_ly3>>, TRUE, s_onetime)>>]

\* Two toggle layers.
DocToggles ==
    [source |-> <<"key_a", "key_b", "key_c">>,
     layers |-> [l \in {"base", "nav", "num"} |->
                    CASE l = "base" -> <<s_a, s_ly1, s_ly2>>
                      [] l = "nav"  -> <<s_y, s_y, s_y>>
                      [] l = "num"  -> <<s_empty, s_z, s_z>>],
     layer_keys |-> <<LayerKeyEntry("nav", <<s_ly1>>, TRUE, s_toggle),
                      LayerKeyEntry("num", <<s_ly2>>, TRUE, s_toggle)>>]

\* Two hold layers, one typed "Hold", one with no type at all.
DocTwoHold ==
    [source |-> <<"key_a", "key_b", "key_c">>,
     layers |-> [l \in {"base", "sym", "fn"} |->
                    CASE l = "base" -> <<s_x, s_ly1, s_ly2>>
                      [] l = "sym"  -> <<s_y, s_z, s_z>>
                      [] l = "fn"   -> <<s_z, s_z, s_z>>],
     layer_keys |-> <<LayerKeyEntry("sym", <<s_ly1>>, TRUE, s_Hold),
                      LayerKeyEntry("fn", <<s_ly2>>, FALSE, s_empty)>>]

\* A layer key id without the "ly" prefix (sym), a quoted base symbol
\* ('ly1' ), and a onetime layer (ghost) that "layers" does not define.
DocOdd ==
    [source |-> <<"key_a", "key_b", "key_c", "key_d">>,
     layers |-> [l \in {"base", "sym", "nav"} |->
                    CASE l = "base" -> <<s_a, s_sym, s_ly1_quoted, s_ly3>>
                      [] l = "sym"  -> <<s_x, s_x, s_x, s_x>>
                      [] l = "nav"  -> <<s_y, s_y, s_y, s_y>>],
     layer_keys |-> <<LayerKeyEntry("sym", <<s_sym>>, TRUE, s_hold),
                      LayerKeyEntry("nav", <<s_ly1>>, TRUE, s_toggle),
                      LayerKeyEntry("ghost", <<s_ly3>>, TRUE, s_onetime)>>]

\* The layout files present in layoutsDir; default.kbd is the scenario layout.
LayoutNames == {"default", "rich", "toggles", "twohold", "odd"}

Doc(name) ==
    CASE name = "default"  -> DocScenario
      [] name = "rich"     -> DocRich
      [] name = "toggles"  -> DocToggles
      [] name = "twohold"  -> DocTwoHold
      [] name = "odd"      -> DocOdd

\* keyCodeToName is a bijection between EV_KEY codes and key names.
KeyCode(keyName) ==
    CASE keyName = "key_a" -> 30
      [] keyName = "key_b" -> 48
      [] keyName = "key_c" -> 46
      [] keyName = "key_d" -> 32
      [] keyName = "key_z" -> 44
      [] keyName = "key_esc" -> 1
      [] keyName = "key_backspace" -> 14
      [] keyName = "key_delete" -> 111
      [] keyName = "key_leftshift" -> 42
      [] keyName = "key_rightshift" -> 54
      [] keyName = "key_leftctrl" -> 29
      [] keyName = "key_rightctrl" -> 97
      [] keyName = "key_leftalt" -> 56
      [] keyName = "key_rightalt" -> 100
      [] keyName = "key_leftmeta" -> 125
      [] keyName = "key_rightmeta" -> 126

(***************************************************************************)
(* loadLayout: the tables built from the document.                         *)
(***************************************************************************)
\* keyPositions[key] = i for i = 0 .. size-1, a later occurrence overwriting.
loadKeyPositions(doc) ==
    LET src == doc.source
        names == {src[i] : i \in 1..Len(src)}
        lastIdx(k) == CHOOSE i \in 1..Len(src) :
                          /\ src[i] = k
                          /\ \A j \in 1..Len(src) : src[j] = k => j <= i
    IN [k \in names |-> lastIdx(k) - 1]

\* layerKeys[key] = {layerName, layerType}; "base" is skipped, the type
\* defaults to Hold, a later entry overwrites an earlier one.
loadLayerKeys(doc) ==
    LET lk == doc.layer_keys
        used == {i \in 1..Len(lk) : lk[i].layer # "base"}
        ids == UNION {{lk[i].keys[j] : j \in 1..Len(lk[i].keys)} : i \in used}
        has(i, id) == \E j \in 1..Len(lk[i].keys) : lk[i].keys[j] = id
        lastIdx(id) == CHOOSE i \in used :
                          /\ has(i, id)
                          /\ \A j \in used : has(j, id) => j <= i
        typeOf(i) == IF lk[i].hasType THEN parseLayerType(lk[i].type) ELSE "Hold"
    IN [id \in ids |-> [targetLayer |-> lk[lastIdx(id)].layer,
                        type |-> typeOf(lastIdx(id))]]

\* The toggle layers of layer_keys, each set from state["toggle_<layer>"].
ToggleKey(layer) == "toggle_" \o layer

initToggles(doc, st) ==
    LET lk == doc.layer_keys
        tl == {lk[i].layer : i \in {j \in 1..Len(lk) :
                    lk[j].hasType /\ parseLayerType(lk[j].type) = "Toggle"}}
    IN [l \in tl |-> IF ToggleKey(l) \in DOMAIN st
                     THEN st[ToggleKey(l)] = "true"
                     ELSE FALSE]

\* layerState = { state["layer"], {}, "", "", -1 } and then the toggles.
initLayerState(doc, st) ==
    [current |-> st["layer"],
     toggles |-> initToggles(doc, st),
     oneTime |-> "",
     hold |-> "",
     holdKey |-> -1]

(***************************************************************************)
(* loadState / saveState.  The file is a YAML map scalar key -> scalar     *)
(* text; a bool is written as the text true or false.                      *)
(***************************************************************************)
NoNode == [k \in {} |-> ""]

BoolText(b) == IF b THEN "true" ELSE "false"

\* state["layout"], state["layer"] default, then overwritten from the file.
loadState(file) ==
    [k \in {"layout", "layer"} |->
        IF file.exists /\ k \in DOMAIN file.node THEN file.node[k]
        ELSE IF k = "layout" THEN "default" ELSE "base"]

\* Mutant: only layout and layer are written.
saveState_noToggles(st, ls) ==
    [exists |-> TRUE, node |-> [k \in {"layout", "layer"} |-> st[k]]]

saveState(st, ls) ==
    [exists |-> TRUE,
     node |-> [k \in {"layout", "layer"} \cup {ToggleKey(l) : l \in DOMAIN ls.toggles} |->
                 IF k \in {"layout", "layer"} THEN st[k]
                 ELSE LET l == CHOOSE l \in DOMAIN ls.toggles : ToggleKey(l) = k
                      IN BoolText(ls.toggles[l])]]

(***************************************************************************)
(* getCurrentLayer: onetime, then hold, then the first toggle found true   *)
(* in the map's iteration order, then "base".                              *)
(***************************************************************************)
\* Mutant: the hold layer is looked at before the onetime layer.
getCurrentLayer_holdFirst(ls, order) ==
    IF ls.hold # "" THEN ls.hold
    ELSE IF ls.oneTime # "" THEN ls.oneTime
    ELSE LET active == {i \in 1..Len(order) : ls.toggles[order[i]]} IN
         IF active # {}
         THEN order[CHOOSE i \in active : \A j \in active : i <= j]
         ELSE "base"

getCurrentLayer(ls, order) ==
    IF ls.oneTime # "" THEN ls.oneTime
    ELSE IF ls.hold # "" THEN ls.hold
    ELSE LET active == {i \in 1..Len(order) : ls.toggles[order[i]]} IN
         IF active # {}
         THEN order[CHOOSE i \in active : \A j \in active : i <= j]
         ELSE "base"

(***************************************************************************)
(* getLayerForKey: the cleaned base symbol must start with "ly" and be a   *)
(* key of layerKeys.                                                       *)
(***************************************************************************)
\* Mutant: the base symbol is looked up as written, without cleanChar.
getLayerForKey_raw(baseChar) ==
    IF Len(baseChar) # 0 /\ startsWith(baseChar, <<108, 121>>)
                          /\ baseChar \in DOMAIN layerKeys
    THEN [isLayerKey |-> TRUE, config |-> layerKeys[baseChar]]
    ELSE [isLayerKey |-> FALSE, config |-> [targetLayer |-> "", type |-> "Hold"]]

getLayerForKey(baseChar) ==
    LET clean_char == cleanChar(baseChar) IN
    IF Len(clean_char) # 0 /\ startsWith(clean_char, <<108, 121>>)
                           /\ clean_char \in DOMAIN layerKeys
    THEN [isLayerKey |-> TRUE, config |-> layerKeys[clean_char]]
    ELSE [isLayerKey |-> FALSE, config |-> [targetLayer |-> "", type |-> "Hold"]]

(***************************************************************************)
(* processKeyEvent.  The result is the new layerState, the new state map,  *)
(* the new state file, the new iteration order and the returned optional.  *)
(***************************************************************************)
Result(ls, st, file, order, out) ==
    [ls |-> ls, st |-> st, file |-> file, order |-> order, out |-> out]

\* Mutant: the toggle is switched on whatever the value computed.
setToggle_alwaysOn(toggles, layerName, value) ==
    [l \in DOMAIN toggles \cup {layerName} |->
        IF l = layerName THEN TRUE ELSE toggles[l]]

\* operator[] on toggles: assigns, inserting the key when it is absent.
setToggle(toggles, layerName, value) ==
    [l \in DOMAIN toggles \cup {layerName} |->
        IF l = layerName THEN value ELSE toggles[l]]

\* processKeyEvent lines 359-397: the key is a layer key.
applyLayerKey(ls, st, file, order, config, keyCode) ==
    LET layerName == config.targetLayer IN
    IF config.type = "Hold" THEN
        Result([ls EXCEPT !.hold = layerName, !.holdKey = keyCode],
               st, file, order, nullopt)
    ELSE IF config.type = "Toggle" THEN
        LET is_active == (getCurrentLayer(ls, order) = layerName)
            order2 == IF layerName \in DOMAIN ls.toggles THEN order
                      ELSE Append(order, layerName)
            ls2 == [ls EXCEPT !.toggles = setToggle(@, layerName, ~is_active)]
            st2 == [k \in DOMAIN st \cup {ToggleKey(layerName)} |->
                       IF k = ToggleKey(layerName)
                       THEN BoolText(ls2.toggles[layerName]) ELSE st[k]]
        IN Result(ls2, st2, saveState(st2, ls2), order2, nullopt)
    ELSE
        Result([ls EXCEPT !.oneTime = layerName], st, file, order, nullopt)

\* Mutant: the onetime layer is consumed before the layer is looked up.
resolveCharacter_consumeFirst(ls, st, file, order, pos) ==
    LET currentLayer == getCurrentLayer(ls, order)
        used == [ls EXCEPT !.oneTime = ""] IN
    IF currentLayer \notin DOMAIN layout.layers THEN
        Result(used, st, file, order, nullopt)
    ELSE IF pos >= Len(layout.layers[currentLayer]) THEN
        Result(used, st, file, order, nullopt)
    ELSE
        Result(used, st, file, order,
               stringToChar32(layout.layers[currentLayer][pos + 1]))

\* processKeyEvent lines 399-441: resolve the character in the current layer.
resolveCharacter(ls, st, file, order, pos) ==
    LET currentLayer == getCurrentLayer(ls, order) IN
    IF currentLayer \notin DOMAIN layout.layers THEN
        Result(ls, st, file, order, nullopt)
    ELSE IF pos >= Len(layout.layers[currentLayer]) THEN
        Result(ls, st, file, order, nullopt)
    ELSE
        LET charStr == layout.layers[currentLayer][pos + 1] IN
        Result([ls EXCEPT !.oneTime = ""], st, file, order, stringToChar32(charStr))

\* Mutant: keyPositions[keyName] instead of find(), a missing key reading as 0.
findKeyPosition_subscript(keyName) ==
    IF keyName \in DOMAIN keyPositions THEN Some(keyPositions[keyName]) ELSE Some(0)

\* keyPositions.find(keyName): the position, or nothing (end()).
findKeyPosition(keyName) ==
    IF keyName \in DOMAIN keyPositions THEN Some(keyPositions[keyName]) ELSE nullopt

processKeyEvent(ls, st, file, order, keyName, keyCode, eventType) ==
    IF eventType # "press" /\ eventType # "repeat" THEN
        Result(ls, st, file, order, nullopt)
    ELSE IF findKeyPosition(keyName) = nullopt THEN
        Result(ls, st, file, order, nullopt)
    ELSE
        LET pos == CHOOSE p \in findKeyPosition(keyName) : TRUE IN
        IF "base" \notin DOMAIN layout.layers \/ pos >= Len(layout.layers["base"]) THEN
            Result(ls, st, file, order, nullopt)
        ELSE
            LET baseChar == layout.layers["base"][pos + 1]
                lk == getLayerForKey(baseChar)
            IN IF lk.isLayerKey
               THEN applyLayerKey(ls, st, file, order, lk.config, keyCode)
               ELSE resolveCharacter(ls, st, file, order, pos)

(***************************************************************************)
(* handleKeyRelease.                                                       *)
(***************************************************************************)
\* Mutant: any release clears the hold layer.
handleKeyRelease_anyKey(ls, keyCode) ==
    [ls EXCEPT !.hold = "", !.holdKey = -1]

\* Mutant: the hold key is forgotten but the hold layer is left set.
handleKeyRelease_keepLayer(ls, keyCode) ==
    IF ls.holdKey = keyCode
    THEN [ls EXCEPT !.holdKey = -1]
    ELSE ls

handleKeyRelease(ls, keyCode) ==
    IF ls.holdKey = keyCode
    THEN [ls EXCEPT !.hold = "", !.holdKey = -1]
    ELSE ls

(***************************************************************************)
(* The layer engine as a state machine: the dispatcher's calls             *)
(* processKeyEvent (Press / Repeat events) and handleKeyRelease (Release   *)
(* events), and a restart of the process (the LayoutManager constructor).  *)
(***************************************************************************)
Call(op, key, ev, out, before, cur) ==
    [op |-> op, key |-> key, ev |-> ev, out |-> out, before |-> before, cur |-> cur]

\* What the history keeps of the call before the last one.
Older(call) == [op |-> call.op, key |-> call.key, ev |-> call.ev, cur |-> call.cur]

Perms(S) ==
    {f \in [1..Cardinality(S) -> S] : \A i, j \in 1..Cardinality(S) : i # j => f[i] # f[j]}

\* The keys the keyboard sends: those of the layout and one that is in no layout.
InputKeys == {layout.source[i] : i \in 1..Len(layout.source)} \cup {"key_z"}

\* The state files a first start can find: none, or one naming a layout.
StartFiles ==
    {[exists |-> FALSE, node |-> NoNode]} \cup
    {[exists |-> TRUE, node |-> [k \in {"layout", "layer"} |->
                                    IF k = "layout" THEN n ELSE "base"]] :
        n \in LayoutNames}

(***************************************************************************)
(* The capture loop's members as the InputHandlerImpl constructor leaves   *)
(* them.  Times are in milliseconds; a time_point is kept as its age, the  *)
(* time elapsed since it was taken, and ages stop growing at AgeCap, which *)
(* is above every delay the code compares an age with.                     *)
(***************************************************************************)
PollSleepMs == 5        \* inputLoop: sleep_for(milliseconds(5))
BackoffMs == 1000       \* processAvailableEvents: sleep_for(seconds(1))
ExitTimeoutMs == 1000   \* checkEmergencyExit: elapsed > 1.0

AgeCap == ExitTimeoutMs + PollSleepMs

Min(a, b) == IF a <= b THEN a ELSE b

Max(a, b) == IF a >= b THEN a ELSE b

Aged(age, ms) == Min(age + ms, AgeCap)

\* struct KeyRepeatState with its default member initializers.
KeyRepeatState ==
    [activeKeyCode |-> -1, count |-> 0, sinceLastTime |-> 0,
     initialDelay |-> 500, repeatDelay |-> 60]

Modifiers == {"Shift", "Ctrl", "Alt", "Super"}

CaptureStart ==
    /\ device = <<>>
    /\ rawKeys = <<>>
    /\ failing = FALSE
    /\ keyRepeat = KeyRepeatState
    /\ modifiers = [m \in Modifiers |-> FALSE]
    /\ exitSequence = <<>>
    /\ sinceExitTimeout = AgeCap
    /\ exited = FALSE
    /\ pcLoop = "first"
    /\ rc = "EAGAIN"

CaptureIdle == CaptureStart /\ hasScan = TRUE /\ usedKeys = {} /\ failuresLeft = 0

NoEvent == [type |-> "none"]

\* main() has reached its loop and has handled nothing yet; the capture
\* thread is in inputLoop, outside processInputEvent.
MainIdle ==
    /\ pcMain = "loop"
    /\ mainEvent = NoEvent
    /\ modifierState = [m \in Modifiers |-> FALSE]
    /\ trace = <<>>
    /\ pcInput = "idle"
    /\ curRaw = NoEvent
    /\ threadDone = FALSE

\* No conversion is under way.
UtfIdle ==
    /\ codePoint = -1
    /\ utf8 = <<>>
    /\ decoded = {}
    /\ pcUtf = "done"

\* findPhysicalKeyboard has returned.
SelectIdle ==
    /\ found = <<>>
    /\ candidates = <<>>
    /\ deviceName = ""
    /\ pcSelect = "done"

\* loadLayout has returned.
LoadIdle ==
    /\ pcLoad = "done"
    /\ layerIt = {}

OtherIdle == MainIdle /\ UtfIdle /\ SelectIdle /\ LoadIdle

ChannelIdle ==
    /\ eventQueue = <<>>
    /\ queueMutex = "free"
    /\ stopThread = FALSE
    /\ running = TRUE
    /\ pcCapture = "idle"
    /\ pcDispatch = "idle"
    /\ curEvent = 0
    /\ waitLeft = 0
    /\ pushed = <<>>
    /\ popped = <<>>

\* LayoutManager::LayoutManager on a first start: loadState(), then loadLayout().
Init ==
    /\ stateFile \in StartFiles
    /\ state = loadState(stateFile)
    /\ layout = Doc(state["layout"])
    /\ keyPositions = loadKeyPositions(layout)
    /\ layerKeys = loadLayerKeys(layout)
    /\ layerState = initLayerState(layout, state)
    /\ toggleOrder \in Perms(DOMAIN layerState.toggles)
    /\ last = Call("none", "", "", nullopt, layerState, "base")
    /\ prev = Older(last)
    /\ pressedHold = {}
    /\ lastHoldKey = -1
    /\ ChannelIdle
    /\ CaptureIdle
    /\ OtherIdle

IsHoldKey(keyName) ==
    /\ keyName \in DOMAIN keyPositions
    /\ keyPositions[keyName] < Len(layout.layers["base"])
    /\ LET lk == getLayerForKey(layout.layers["base"][keyPositions[keyName] + 1])
       IN lk.isLayerKey /\ lk.config.type = "Hold"

\* main.cpp: a Press or Repeat event is given to processKeyEvent.
ProcessKeyEffect(keyName, eventType) ==
    LET r == processKeyEvent(layerState, state, stateFile, toggleOrder,
                             keyName, KeyCode(keyName), eventType)
    IN /\ layerState' = r.ls
       /\ state' = r.st
       /\ stateFile' = r.file
       /\ toggleOrder' = r.order
       /\ last' = Call("process", keyName, eventType, r.out, layerState,
                       getCurrentLayer(layerState, toggleOrder))
       /\ prev' = Older(last)
       /\ pressedHold' = IF IsHoldKey(keyName)
                         THEN pressedHold \cup {KeyCode(keyName)} ELSE pressedHold
       /\ lastHoldKey' = IF IsHoldKey(keyName) THEN KeyCode(keyName) ELSE lastHoldKey
       /\ UNCHANGED <<layout, keyPositions, layerKeys>>

ProcessKey(keyName, eventType) ==
    ProcessKeyEffect(keyName, eventType) /\ UNCHANGED <<chanVars, capVars, otherVars>>

\* main.cpp: a Release event is given to handleKeyRelease.
ReleaseKeyEffect(keyName) ==
    /\ layerState' = handleKeyRelease(layerState, KeyCode(keyName))
    /\ last' = Call("release", keyName, "release", nullopt, layerState,
                    getCurrentLayer(layerState, toggleOrder))
    /\ prev' = Older(last)
    /\ pressedHold' = pressedHold \ {KeyCode(keyName)}
    /\ UNCHANGED <<layout, keyPositions, layerKeys, toggleOrder, state, stateFile,
                   lastHoldKey>>

ReleaseKey(keyName) ==
    ReleaseKeyEffect(keyName) /\ UNCHANGED <<chanVars, capVars, otherVars>>

\* The process ends and is started again on the same configuration
\* directory: the LayoutManager constructor runs loadState() and loadLayout().
Restart ==
    /\ state' = loadState(stateFile)
    /\ layout' = Doc(state'["layout"])
    /\ keyPositions' = loadKeyPositions(layout')
    /\ layerKeys' = loadLayerKeys(layout')
    /\ layerState' = initLayerState(layout', state')
    /\ toggleOrder' \in Perms(DOMAIN layerState'.toggles)
    /\ last' = Call("restart", "", "", nullopt, layerState,
                    getCurrentLayer(layerState, toggleOrder))
    /\ prev' = Older(last)
    /\ pressedHold' = {}
    /\ lastHoldKey' = -1
    /\ UNCHANGED <<stateFile, chanVars, capVars, otherVars>>

Next ==
    \/ \E k \in InputKeys, e \in {"press", "repeat"} : ProcessKey(k, e)
    \/ \E k \in InputKeys : ReleaseKey(k)
    \/ Restart

Spec == Init /\ [][Next]_vars

(***************************************************************************)
(* Vocabulary of the properties.                                           *)
(***************************************************************************)
InLayout(keyName) == keyName \in DOMAIN keyPositions

BaseSymbol(keyName) == layout.layers["base"][keyPositions[keyName] + 1]

LayerKeyOf(keyName) == getLayerForKey(BaseSymbol(keyName))

IsLayerKeyOfType(keyName, type) ==
    /\ InLayout(keyName)
    /\ LayerKeyOf(keyName).isLayerKey
    /\ LayerKeyOf(keyName).config.type = type

IsPlainKey(keyName) == InLayout(keyName) /\ ~LayerKeyOf(keyName).isLayerKey

TargetLayer(keyName) == LayerKeyOf(keyName).config.targetLayer

HoldKeyNames == {k \in DOMAIN keyPositions : IsLayerKeyOfType(k, "Hold")}

AnyToggleOn(ls) == \E l \in DOMAIN ls.toggles : ls.toggles[l]

\* The layer getCurrentLayer falls back to when no onetime layer is armed.
NextPriorityLayer(ls, order) == getCurrentLayer([ls EXCEPT !.oneTime = ""], order)

(***************************************************************************)
(* C1 (as stated): a hold layer H whose layer key has code k is the        *)
(* active hold layer if and only if a hold-type key for H was pressed and  *)
(* no Release of k has been handled since, whatever other keys, other      *)
(* hold keys included, were pressed or released in between.                *)
(***************************************************************************)
C1_HoldIffPressedAndNotReleased ==
    \A k \in HoldKeyNames :
        (layerState.hold = TargetLayer(k)) <=> (KeyCode(k) \in pressedHold)

(***************************************************************************)
(* C1 (amended): H with layer key code k is the active hold layer (and k   *)
(* the remembered hold key) if and only if the most recent hold-type       *)
(* layer key press or repeat processed was that of k and no Release of k   *)
(* has been handled since.                                                 *)
(***************************************************************************)
C1_HoldIffLastPressedAndNotReleased ==
    \A k \in HoldKeyNames :
        (layerState.hold = TargetLayer(k) /\ layerState.holdKey = KeyCode(k))
            <=> (lastHoldKey = KeyCode(k) /\ KeyCode(k) \in pressedHold)

\* The later of two hold keys has been released while the earlier is still
\* down: no hold layer is active.
C1_Witness ==
    /\ pressedHold = {KeyCode("key_b")}
    /\ lastHoldKey = KeyCode("key_c")
    /\ layerState.hold = ""
    /\ last.op = "release"

(***************************************************************************)
(* C2: the processKeyEvent call on a plain key of the layout that follows  *)
(* the arming of a onetime layer clears the onetime layer, so that         *)
(* getCurrentLayer then returns the next-highest-priority layer (hold,     *)
(* else toggle, else base), in every loadable layout.                      *)
(***************************************************************************)
C2_OnetimeClearedByNextKey ==
    (last.op = "process" /\ IsPlainKey(last.key) /\ last.before.oneTime # "")
        => /\ layerState.oneTime = ""
           /\ getCurrentLayer(layerState, toggleOrder)
                  = NextPriorityLayer(last.before, toggleOrder)

(***************************************************************************)
(* C3: every processKeyEvent call (press or repeat) on a toggle-type       *)
(* layer key for T negates toggles[T].                                     *)
(***************************************************************************)
C3_ToggleKeyNegates ==
    (last.op = "process" /\ IsLayerKeyOfType(last.key, "Toggle"))
        => layerState.toggles[TargetLayer(last.key)]
               = ~last.before.toggles[TargetLayer(last.key)]

DoublePress ==
    /\ last.op = "process" /\ last.ev = "press"
    /\ prev.op = "process" /\ prev.ev = "press"
    /\ prev.key = last.key
    /\ IsLayerKeyOfType(last.key, "Toggle")

(***************************************************************************)
(* C4: two presses in a row of the same toggle-type layer key leave        *)
(* getCurrentLayer equal to its value before the first press.              *)
(***************************************************************************)
C4_DoubleToggleRestoresCurrentLayer ==
    DoublePress => getCurrentLayer(layerState, toggleOrder) = prev.cur

\* The toggle pressed twice is first in iteration order while another toggle is on.
C4_Witness ==
    /\ DoublePress
    /\ prev.cur = "num"
    /\ TargetLayer(last.key) = "nav"
    /\ toggleOrder[1] = "nav"

PersistedToggle(layer) ==
    /\ stateFile.exists
    /\ ToggleKey(layer) \in DOMAIN stateFile.node
    /\ stateFile.node[ToggleKey(layer)] = "true"

(***************************************************************************)
(* C5: after a restart, toggles[T] of every toggle layer T equals the      *)
(* value last written for T to the state file (false when none was).       *)
(***************************************************************************)
C5_TogglesRoundTripAcrossRestart ==
    last.op = "restart"
        => \A l \in DOMAIN layerState.toggles :
               layerState.toggles[l] = PersistedToggle(l)

(***************************************************************************)
(* C6 (as stated): processKeyEvent returns no character for a key whose    *)
(* cleaned base-layer symbol is registered in layerKeys.                   *)
(***************************************************************************)
C6_RegisteredKeyReturnsNothing ==
    (last.op = "process" /\ InLayout(last.key)
        /\ cleanChar(BaseSymbol(last.key)) \in DOMAIN layerKeys)
        => last.out = nullopt

(***************************************************************************)
(* C6 (amended): processKeyEvent returns no character, on press and on     *)
(* repeat, for a key whose cleaned base-layer symbol starts with "ly" and  *)
(* is registered in layerKeys, whatever its activation type and whichever  *)
(* layer is current.                                                       *)
(***************************************************************************)
C6_RegisteredLyKeyReturnsNothing ==
    (last.op = "process" /\ InLayout(last.key)
        /\ startsWith(cleanChar(BaseSymbol(last.key)), <<108, 121>>)
        /\ cleanChar(BaseSymbol(last.key)) \in DOMAIN layerKeys)
        => last.out = nullopt

\* A repeat of a key whose base symbol is quoted, while a onetime layer is armed.
C6_Witness ==
    /\ last.op = "process" /\ last.ev = "repeat"
    /\ InLayout(last.key)
    /\ BaseSymbol(last.key) = s_ly1_quoted
    /\ last.before.oneTime # ""
    /\ last.out = nullopt

(***************************************************************************)
(* C7: for a key name that is not in keyPositions, processKeyEvent returns *)
(* nothing and leaves layerState unchanged.                                *)
(***************************************************************************)
C7_UnknownKeyNoOutputNoChange ==
    (last.op = "process" /\ ~InLayout(last.key))
        => /\ last.out = nullopt
           /\ layerState = last.before

\* An unknown key is processed while a onetime, a hold and a toggle layer are on.
C7_Witness ==
    /\ last.op = "process" /\ last.key = "key_z"
    /\ layerState.oneTime # "" /\ layerState.hold # "" /\ AnyToggleOn(layerState)

(***************************************************************************)
(* C8: getCurrentLayer returns the armed onetime layer if any, else the    *)
(* active hold layer if any, else a toggle layer whose boolean is true if  *)
(* any, else "base".                                                       *)
(***************************************************************************)
C8_CurrentLayerByPriority ==
    LET cur == getCurrentLayer(layerState, toggleOrder) IN
    /\ layerState.oneTime # "" => cur = layerState.oneTime
    /\ (layerState.oneTime = "" /\ layerState.hold # "") => cur = layerState.hold
    /\ (layerState.oneTime = "" /\ layerState.hold = "" /\ AnyToggleOn(layerState))
           => (cur \in DOMAIN layerState.toggles /\ layerState.toggles[cur])
    /\ (layerState.oneTime = "" /\ layerState.hold = "" /\ ~AnyToggleOn(layerState))
           => cur = "base"
    /\ cur = "base" => (layerState.oneTime = "" /\ layerState.hold = ""
                            /\ ~AnyToggleOn(layerState))

\* All three kinds of layer are on at once.
C8_Witness ==
    /\ layerState.oneTime = "acc"
    /\ layerState.hold = "sym"
    /\ layerState.toggles["nav"]
    /\ getCurrentLayer(layerState, toggleOrder) = "acc"

SymbolAt(layer, keyName) == layout.layers[layer][keyPositions[keyName] + 1]

(***************************************************************************)
(* C9: with a hold layer H active and no onetime layer armed, a press of   *)
(* a plain key at position p returns the decoded symbol H[p]; once every   *)
(* pressed hold key has had its release handled, and no toggle is true, a  *)
(* press of the key returns the decoded symbol base[p].                    *)
(***************************************************************************)
C9_HoldThenBase ==
    (last.op = "process" /\ IsPlainKey(last.key) /\ last.before.oneTime = "")
        => /\ (last.before.hold # "" /\ last.before.hold \in DOMAIN layout.layers)
                => last.out = stringToChar32(SymbolAt(last.before.hold, last.key))
           /\ (pressedHold = {} /\ ~AnyToggleOn(last.before))
                => last.out = stringToChar32(SymbolAt("base", last.key))

\* The end of the scenario: key_b, held with layer sym current, is released
\* and the next press of key_a gives x.
C9_Witness ==
    /\ layout = DocScenario
    /\ prev.op = "release" /\ prev.key = "key_b" /\ prev.cur = "sym"
    /\ last.op = "process" /\ last.ev = "press" /\ last.key = "key_a"
    /\ last.out = Some(120)

(***************************************************************************)
(* The event channel: the capture thread's enqueueEvent and the dispatch   *)
(* thread's getEvent on eventQueue, queueMutex and cv.  Events are         *)
(* numbered in the order the capture thread creates them.  Time is         *)
(* counted in ticks of the steady clock.                                   *)
(***************************************************************************)
MaxPush == 4        \* events the capture thread creates
MaxWaitTicks == 2   \* the timeout_ms of a getEvent call, in ticks

\* std::queue: push, front, pop.
queuePush(q, e) == Append(q, e)

\* Mutant: the newest element is taken instead of the oldest.
queueFront_back(q) == q[Len(q)]

queueFront(q) == Head(q)

\* Mutant: pop empties the queue.
queuePop_clear(q) == <<>>

queuePop(q) == Tail(q)

LayerIdle ==
    /\ stateFile = [exists |-> FALSE, node |-> NoNode]
    /\ state = loadState(stateFile)
    /\ layout = Doc(state["layout"])
    /\ keyPositions = loadKeyPositions(layout)
    /\ layerKeys = loadLayerKeys(layout)
    /\ layerState = initLayerState(layout, state)
    /\ toggleOrder = <<>>
    /\ last = Call("none", "", "", nullopt, layerState, "base")
    /\ prev = Older(last)
    /\ pressedHold = {}
    /\ lastHoldKey = -1

InitChannel == LayerIdle /\ ChannelIdle /\ CaptureIdle /\ OtherIdle

\* The capture thread (inputLoop, while stopThread is false) creates an
\* event and calls enqueueEvent.
EnqueueCall ==
    /\ pcCapture = "idle"
    /\ ~stopThread
    /\ curEvent < MaxPush
    /\ curEvent' = curEvent + 1
    /\ pcCapture' = "lock"
    /\ UNCHANGED <<eventQueue, queueMutex, stopThread, pcDispatch, waitLeft,
                   pushed, popped, layerVars, running, capVars, otherVars>>

\* enqueueEvent: std::lock_guard lock(queueMutex).
EnqueueLock ==
    /\ pcCapture = "lock"
    /\ queueMutex = "free"
    /\ queueMutex' = "capture"
    /\ pcCapture' = "push"
    /\ UNCHANGED <<eventQueue, stopThread, pcDispatch, curEvent, waitLeft,
                   pushed, popped, layerVars, running, capVars, otherVars>>

\* enqueueEvent: eventQueue.push(event).
EnqueuePush ==
    /\ pcCapture = "push"
    /\ eventQueue' = queuePush(eventQueue, curEvent)
    /\ pushed' = Append(pushed, curEvent)
    /\ pcCapture' = "notify"
    /\ UNCHANGED <<queueMutex, stopThread, pcDispatch, curEvent, waitLeft,
                   popped, layerVars, running, capVars, otherVars>>

\* enqueueEvent: cv.notify_one(), then the lock_guard releases the mutex.
EnqueueNotify ==
    /\ pcCapture = "notify"
    /\ pcDispatch' = IF pcDispatch = "wait" THEN "wake" ELSE pcDispatch
    /\ queueMutex' = "free"
    /\ pcCapture' = "idle"
    /\ UNCHANGED <<eventQueue, stopThread, curEvent, waitLeft, pushed, popped,
                   layerVars, running, capVars, otherVars>>

\* main: while (running) keyboard.getEvent(100); start = now.
GetEventCall ==
    /\ pcDispatch = "idle"
    /\ running
    /\ ~stopThread
    /\ waitLeft' = MaxWaitTicks
    /\ pcDispatch' = "lock"
    /\ UNCHANGED <<eventQueue, queueMutex, stopThread, pcCapture, curEvent,
                   pushed, popped, layerVars, running, capVars, otherVars>>

\* getEvent: std::unique_lock lock(queueMutex).
GetEventLock ==
    /\ pcDispatch = "lock"
    /\ queueMutex = "free"
    /\ queueMutex' = "dispatch"
    /\ pcDispatch' = "check"
    /\ UNCHANGED <<eventQueue, stopThread, pcCapture, curEvent, waitLeft,
                   pushed, popped, layerVars, running, capVars, otherVars>>

\* getEvent: the loop test with the queue empty: return nullopt when the
\* timeout has elapsed, else cv.wait_for, which releases the mutex.
GetEventEmpty ==
    /\ pcDispatch = "check"
    /\ eventQueue = <<>>
    /\ pcDispatch' = IF waitLeft = 0 THEN "idle" ELSE "wait"
    /\ queueMutex' = "free"
    /\ UNCHANGED <<eventQueue, stopThread, pcCapture, curEvent, waitLeft,
                   pushed, popped, layerVars, running, capVars, otherVars>>

\* cv.wait_for ends without a notification: its timeout has elapsed, or the
\* wakeup is spurious.
WaitEnds ==
    /\ pcDispatch = "wait"
    /\ pcDispatch' = "wake"
    /\ UNCHANGED <<eventQueue, queueMutex, stopThread, pcCapture, curEvent,
                   waitLeft, pushed, popped, layerVars, running, capVars, otherVars>>

\* cv.wait_for returns with the mutex held again; then the stopThread test.
GetEventWake ==
    /\ pcDispatch = "wake"
    /\ queueMutex = "free"
    /\ IF stopThread
       THEN pcDispatch' = "idle" /\ queueMutex' = "free"
       ELSE pcDispatch' = "check" /\ queueMutex' = "dispatch"
    /\ UNCHANGED <<eventQueue, stopThread, pcCapture, curEvent, waitLeft,
                   pushed, popped, layerVars, running, capVars, otherVars>>

\* getEvent: the queue is not empty: move out the front, pop it, return it.
GetEventPop ==
    /\ pcDispatch = "check"
    /\ eventQueue # <<>>
    /\ popped' = Append(popped, queueFront(eventQueue))
    /\ eventQueue' = queuePop(eventQueue)
    /\ queueMutex' = "free"
    /\ pcDispatch' = "idle"
    /\ UNCHANGED <<stopThread, pcCapture, curEvent, waitLeft, pushed, layerVars, running, capVars, otherVars>>

\* The steady clock advances while a getEvent call is running.
Tick ==
    /\ pcDispatch \in {"lock", "check", "wait", "wake"}
    /\ waitLeft > 0
    /\ waitLeft' = waitLeft - 1
    /\ UNCHANGED <<eventQueue, queueMutex, stopThread, pcCapture, pcDispatch,
                   curEvent, pushed, popped, layerVars, running, capVars, otherVars>>

\* signalHandler(SIGINT): running = false.  The signal can arrive at any
\* moment, also while getEvent is waiting.
SignalHandler ==
    /\ running
    /\ running' = FALSE
    /\ UNCHANGED <<eventQueue, queueMutex, stopThread, pcCapture, pcDispatch,
                   curEvent, waitLeft, pushed, popped, layerVars, capVars, otherVars>>

\* ~InputHandlerImpl, run by the main thread once its loop has ended (running
\* is false, or an exception left the loop), so never inside a getEvent call:
\* stopThread = true.
StopThread ==
    /\ pcDispatch = "idle"
    /\ ~stopThread
    /\ stopThread' = TRUE
    /\ UNCHANGED <<eventQueue, queueMutex, pcCapture, pcDispatch, curEvent,
                   waitLeft, pushed, popped, layerVars, running, capVars, otherVars>>

NextChannel ==
    \/ EnqueueCall
    \/ EnqueueLock
    \/ EnqueuePush
    \/ EnqueueNotify
    \/ GetEventCall
    \/ GetEventLock
    \/ GetEventEmpty
    \/ WaitEnds
    \/ GetEventWake
    \/ GetEventPop
    \/ Tick
    \/ SignalHandler
    \/ StopThread

SpecChannel == InitChannel /\ [][NextChannel]_vars

(***************************************************************************)
(* C10: under every interleaving of enqueueEvent and getEvent, the events  *)
(* getEvent has returned are a prefix of the events pushed, in push order  *)
(* (and the events pushed and not yet returned are the queue's contents).  *)
(***************************************************************************)
C10_ChannelIsFifo ==
    /\ Len(popped) <= Len(pushed)
    /\ popped = SubSeq(pushed, 1, Len(popped))
    /\ popped \o eventQueue = pushed

\* Two events have been delivered, another is queued, and both threads are
\* inside their calls: the capture thread holds the mutex the woken
\* dispatch thread needs.
C10_Witness ==
    /\ Len(popped) = 2
    /\ Len(eventQueue) >= 1
    /\ pcCapture = "push"
    /\ pcDispatch = "wake"

\* Shutdown has been signaled: SIGINT has cleared running, or the destructor
\* has set stopThread.
ShutdownSignaled == ~running \/ stopThread

\* The step in which getEvent returns std::nullopt.
ReturnsEmpty ==
    /\ pcDispatch \in {"check", "wake"}
    /\ pcDispatch' = "idle"
    /\ popped' = popped

(***************************************************************************)
(* C11: getEvent returns empty when shutdown is signaled while it waits:   *)
(* once its wait is over and shutdown has been signaled, its next step is  *)
(* to return empty, it does not go back to the queue test and wait again;  *)
(* and it never returns empty while the queue is non-empty and shutdown    *)
(* has not been signaled.                                                  *)
(***************************************************************************)
C11_GetEventEndsOnShutdown ==
    [][/\ (ReturnsEmpty /\ eventQueue # <<>>) => ShutdownSignaled
       /\ (pcDispatch = "wake" /\ ShutdownSignaled /\ pcDispatch' # "wake")
              => ReturnsEmpty]_vars

(***************************************************************************)
(* The capture loop: inputLoop, processAvailableEvents, processInputEvent, *)
(* checkEmergencyExit, checkKeyRepeat and triggerKeyRepeat.  A raw event   *)
(* is a record [type, code, value] as libevdev_next_event returns it.      *)
(* keyState and checkStuckKeys only feed a diagnostic message and are not  *)
(* part of the model.  The handlers work on the record CapState of the     *)
(* members they touch; enqueueEvent is taken as one step here, its locking *)
(* is the subject of SpecChannel.                                          *)
(***************************************************************************)
MaxRaw == 3        \* key actions of the user in one run
MaxRepeats == 10   \* Repeat events fired for one press of backspace or delete
MaxPlainRepeats == 2  \* Repeat events fired for one press of another key
MaxFailures == 1   \* device read failures in one run

KeyNames ==
    {"key_a", "key_b", "key_c", "key_d", "key_z", "key_esc", "key_backspace",
     "key_delete", "key_leftshift", "key_rightshift", "key_leftctrl",
     "key_rightctrl", "key_leftalt", "key_rightalt", "key_leftmeta",
     "key_rightmeta"}

keyCodeToName(code) == CHOOSE n \in KeyNames : KeyCode(n) = code

MODIFIER_MAP ==
    (KeyCode("key_leftshift") :> "Shift") @@ (KeyCode("key_rightshift") :> "Shift") @@
    (KeyCode("key_leftctrl") :> "Ctrl") @@ (KeyCode("key_rightctrl") :> "Ctrl") @@
    (KeyCode("key_leftalt") :> "Alt") @@ (KeyCode("key_rightalt") :> "Alt") @@
    (KeyCode("key_leftmeta") :> "Super") @@ (KeyCode("key_rightmeta") :> "Super")

EMERGENCY_EXIT ==
    <<KeyCode("key_leftctrl"), KeyCode("key_leftalt"), KeyCode("key_esc")>>

RawKeyEvent(code, value) == [type |-> "EV_KEY", code |-> code, value |-> value]

\* The events of one key action as the kernel hands them over, all at once:
\* the scan code if the device reports one, the key event, the SYN_REPORT.
Packet(scan, code, value) ==
    (IF scan THEN <<[type |-> "EV_MSC", code |-> 4, value |-> code]>> ELSE <<>>)
    \o <<RawKeyEvent(code, value), [type |-> "EV_SYN", code |-> 0, value |-> 0]>>

InputEvent(type, code, active, value) ==
    [type |-> type, keyName |-> keyCodeToName(code), keyCode |-> code,
     active |-> active, value |-> value]

CapState ==
    [keyRepeat |-> keyRepeat, modifiers |-> modifiers, exitSequence |-> exitSequence,
     sinceExitTimeout |-> sinceExitTimeout, exited |-> exited,
     eventQueue |-> eventQueue]

enqueueEvent(cs, event) == [cs EXCEPT !.eventQueue = queuePush(@, event)]

\* checkEmergencyExit: the clear on a timeout, then the append of a chord
\* key-down and the comparison with the chord.
\* Mutant: the sequence never times out.
expireExit_noTimeout(seq, age) == seq

expireExit(seq, age) == IF age > ExitTimeoutMs THEN <<>> ELSE seq

\* Mutant: a chord key-down is appended also when it repeats the last entry.
appendChord_always(seq, code) == Append(seq, code)

appendChord(seq, code) ==
    IF seq = <<>> \/ seq[Len(seq)] # code THEN Append(seq, code) ELSE seq

InChord(code) == \E i \in 1..Len(EMERGENCY_EXIT) : EMERGENCY_EXIT[i] = code

checkEmergencyExit(cs, ev) ==
    LET expired == expireExit(cs.exitSequence, cs.sinceExitTimeout)
        appended == appendChord(expired, ev.code)
    IN IF ev.value # 1 \/ ~InChord(ev.code)
       THEN [cs EXCEPT !.exitSequence = expired]
       ELSE [cs EXCEPT !.exitSequence = appended,
                       !.sinceExitTimeout = 0,
                       !.exited = (appended = EMERGENCY_EXIT)]

\* Mutant: a key-up leaves the repeat tracker as it is.
stopRepeat_never(cs, code) == cs

\* keyRepeat.activeKeyCode = -1; keyRepeat.count = 0; when the key is tracked.
stopRepeat(cs, code) ==
    IF cs.keyRepeat.activeKeyCode = code
    THEN [cs EXCEPT !.keyRepeat.activeKeyCode = -1, !.keyRepeat.count = 0]
    ELSE cs

\* processInputEvent up to the call of checkEmergencyExit: the repeat
\* tracker is stopped on a key-up, then the chord is checked.
trackKeyState(cs, ev) ==
    checkEmergencyExit(IF ev.value = 0 THEN stopRepeat(cs, ev.code) ELSE cs, ev)

\* The modifier branch of processInputEvent: the write of the modifier map
\* and the two events it pushes after it.
\* Mutant: the map is left as it was.
writeModifier_skip(cs, ev) == cs

writeModifier(cs, ev) ==
    [cs EXCEPT !.modifiers[MODIFIER_MAP[ev.code]] = (ev.value > 0)]

ModifierEvent(ev) == InputEvent("Modifier", ev.code, ev.value > 0, 0)

RawKeyEventFor(ev) == InputEvent("RawKey", ev.code, FALSE, ev.value)

\* processInputEvent after the call of checkEmergencyExit: the modifier
\* branch, or the press and release branches of a data key.
surfaceKeyEvent(checked, ev) ==
    IF ev.code \in DOMAIN MODIFIER_MAP
    THEN enqueueEvent(enqueueEvent(writeModifier(checked, ev), ModifierEvent(ev)),
                      RawKeyEventFor(ev))
    ELSE IF ev.value = 1
    THEN enqueueEvent(
             [checked EXCEPT !.keyRepeat.activeKeyCode = ev.code,
                             !.keyRepeat.count = 0,
                             !.keyRepeat.sinceLastTime = 0],
             InputEvent("Press", ev.code, TRUE, 0))
    ELSE IF ev.value = 0
    THEN enqueueEvent(stopRepeat(checked, ev.code),
                      InputEvent("Release", ev.code, FALSE, 0))
    ELSE checked

\* Mutant: the event is surfaced before the process ends in the chord.
processInputEvent_exitLast(cs, ev) == surfaceKeyEvent(trackKeyState(cs, ev), ev)

processInputEvent(cs, ev) ==
    LET checked == trackKeyState(cs, ev)
    IN IF checked.exited THEN checked ELSE surfaceKeyEvent(checked, ev)

\* processAvailableEvents, the while loop: every event read is handed to
\* processInputEvent if it is a key event; _exit ends the process at once.
RECURSIVE readLoop(_, _)
readLoop(cs, evs) ==
    IF evs = <<>> \/ cs.exited
    THEN cs
    ELSE readLoop(IF Head(evs).type = "EV_KEY"
                  THEN processInputEvent(cs, Head(evs)) ELSE cs,
                  Tail(evs))

IsBackspaceOrDelete(code) ==
    code = KeyCode("key_backspace") \/ code = KeyCode("key_delete")

\* Mutant: the acceleration has no floor.
triggerKeyRepeat_noFloor(cs) ==
    LET n == cs.keyRepeat.count + 1
        fired == enqueueEvent(cs, InputEvent("Repeat", cs.keyRepeat.activeKeyCode, TRUE, 0))
    IN [fired EXCEPT !.keyRepeat.count = n,
                     !.keyRepeat.sinceLastTime = 0,
                     !.keyRepeat.repeatDelay =
                         IF IsBackspaceOrDelete(cs.keyRepeat.activeKeyCode)
                         THEN 50 - n * 5 ELSE @]

triggerKeyRepeat(cs) ==
    LET n == cs.keyRepeat.count + 1
        fired == enqueueEvent(cs, InputEvent("Repeat", cs.keyRepeat.activeKeyCode, TRUE, 0))
    IN [fired EXCEPT !.keyRepeat.count = n,
                     !.keyRepeat.sinceLastTime = 0,
                     !.keyRepeat.repeatDelay =
                         IF IsBackspaceOrDelete(cs.keyRepeat.activeKeyCode)
                         THEN Max(10, 50 - n * 5) ELSE @]

\* Mutant: the first repeat waits for repeatDelay like the later ones.
repeatDue_noInitialDelay(kr) ==
    kr.activeKeyCode # -1 /\ kr.sinceLastTime >= kr.repeatDelay

\* checkKeyRepeat: the test that lets a repeat fire.
repeatDue(kr) ==
    /\ kr.activeKeyCode # -1
    /\ IF kr.count = 0
       THEN kr.sinceLastTime >= kr.initialDelay
       ELSE kr.sinceLastTime >= kr.repeatDelay

checkKeyRepeat(cs) == IF repeatDue(cs.keyRepeat) THEN triggerKeyRepeat(cs) ELSE cs

(***************************************************************************)
(* The capture thread and the keyboard as a state machine.  The clock      *)
(* advances while the thread sleeps: PollSleepMs at the end of a cycle,    *)
(* BackoffMs after a failed read.  A run of cycles that find nothing at    *)
(* the device and no repeat due is one step, QuietCycles.                  *)
(***************************************************************************)
chanRest == <<queueMutex, stopThread, running, pcCapture, pcDispatch, curEvent,
              waitLeft, pushed, popped>>

\* The runs: the keys the user works with (typing, modifiers, the chord),
\* the kind of device, and the read failures of the device (taken in the
\* typing runs).
Scenarios ==
    {[keys |-> k, scan |-> b, failures |-> 0] :
        k \in {{"key_a", "key_backspace"},
               {"key_leftshift", "key_rightshift", "key_a"},
               {"key_leftctrl", "key_leftalt", "key_esc"}},
        b \in BOOLEAN}
    \cup {[keys |-> {"key_a", "key_backspace"}, scan |-> TRUE, failures |-> MaxFailures]}

InitCapture ==
    /\ LayerIdle
    /\ ChannelIdle
    /\ CaptureStart
    /\ OtherIdle
    /\ \E sc \in Scenarios :
          /\ usedKeys = sc.keys
          /\ hasScan = sc.scan
          /\ failuresLeft = sc.failures

SetCapState(cs) ==
    /\ keyRepeat' = cs.keyRepeat
    /\ modifiers' = cs.modifiers
    /\ exitSequence' = cs.exitSequence
    /\ sinceExitTimeout' = cs.sinceExitTimeout
    /\ exited' = cs.exited
    /\ eventQueue' = cs.eventQueue

\* ms milliseconds pass.  lastTime is read only while a key is tracked, and
\* every press that starts tracking sets it: its age is kept only then.
Elapsed(cs, ms) ==
    [cs EXCEPT !.keyRepeat.sinceLastTime =
                   IF cs.keyRepeat.activeKeyCode = -1 THEN @ ELSE Aged(@, ms),
               !.sinceExitTimeout = Aged(@, ms)]

\* The Repeat events the model follows for one press.
RepeatBound(code) == IF IsBackspaceOrDelete(code) THEN MaxRepeats ELSE MaxPlainRepeats

\* The codes of the keys that are down after the key events evs.
HeldAfter(evs) ==
    {evs[i].code : i \in {j \in 1..Len(evs) :
        /\ evs[j].value # 0
        /\ \A k \in (j + 1)..Len(evs) : evs[k].code = evs[j].code => evs[k].value # 0}}

\* The user presses (1) or releases (0) a key, or the kernel auto-repeats a
\* held key (2): the device holds the events of that action.  An action that
\* happens while a cycle is under way is read by the next cycle, so the
\* actions are taken between two cycles, or between the two reads of a cycle.
\* The user acts before a held key has repeated twice, or after it has
\* repeated MaxRepeats times.
KeyActionAllowed(keyName, value) ==
    /\ ~exited
    /\ Len(rawKeys) < MaxRaw
    /\ keyRepeat.count <= 1 \/ keyRepeat.count = RepeatBound(keyRepeat.activeKeyCode)
    /\ keyName \in usedKeys
    /\ (value = 1) = (KeyCode(keyName) \notin HeldAfter(rawKeys))

KeyAction(keyName, value) ==
    /\ pcLoop = "first"
    /\ KeyActionAllowed(keyName, value)
    /\ device' = device \o Packet(hasScan, KeyCode(keyName), value)
    /\ rawKeys' = Append(rawKeys, RawKeyEvent(KeyCode(keyName), value))
    /\ UNCHANGED <<hasScan, usedKeys, failing, failuresLeft, keyRepeat, modifiers, exitSequence,
                   sinceExitTimeout, exited, pcLoop, rc, chanVars, layerVars, otherVars>>

\* The device is in a state in which its next read fails (rc < 0, not -EAGAIN).
DeviceFails ==
    /\ pcLoop = "first"
    /\ ~exited
    /\ ~failing
    /\ failuresLeft > 0
    /\ failing' = TRUE
    /\ failuresLeft' = failuresLeft - 1
    /\ UNCHANGED <<device, hasScan, usedKeys, rawKeys, keyRepeat, modifiers, exitSequence,
                   sinceExitTimeout, exited, pcLoop, rc, chanVars, layerVars, otherVars>>

\* inputLoop enters a cycle that has something to do; processAvailableEvents
\* calls libevdev_next_event once before its loop and does not look at the
\* event it gets.
ProcessAvailableEventsFirst ==
    /\ pcLoop = "first"
    /\ ~exited
    /\ ~stopThread
    /\ device # <<>> \/ failing \/ repeatDue(keyRepeat)
    /\ device' = IF failing \/ device = <<>> THEN device ELSE Tail(device)
    /\ pcLoop' = "read"
    /\ UNCHANGED <<hasScan, usedKeys, rawKeys, failing, failuresLeft, keyRepeat, modifiers,
                   exitSequence, sinceExitTimeout, exited, rc, chanVars, layerVars, otherVars>>

\* The first libevdev_next_event call finds nothing (-EAGAIN), and the user
\* acts before the loop's first call.
KeyActionAfterFirstRead(keyName, value) ==
    /\ pcLoop = "first"
    /\ ~stopThread
    /\ device = <<>>
    /\ ~failing
    /\ KeyActionAllowed(keyName, value)
    /\ device' = Packet(hasScan, KeyCode(keyName), value)
    /\ rawKeys' = Append(rawKeys, RawKeyEvent(KeyCode(keyName), value))
    /\ pcLoop' = "read"
    /\ UNCHANGED <<hasScan, usedKeys, failing, failuresLeft, keyRepeat, modifiers, exitSequence,
                   sinceExitTimeout, exited, rc, chanVars, layerVars, otherVars>>

\* processAvailableEvents, the while loop and the error test after it: the
\* loop runs until a read returns non-zero; a failure is followed by a sleep
\* of one second.
ProcessAvailableEvents ==
    /\ pcLoop = "read"
    /\ ~exited
    /\ IF failing
       THEN /\ SetCapState(Elapsed(CapState, BackoffMs))
            /\ rc' = "ERR"
            /\ UNCHANGED device
       ELSE /\ SetCapState(readLoop(CapState, device))
            /\ rc' = "EAGAIN"
            /\ device' = <<>>
    /\ failing' = FALSE
    /\ pcLoop' = "repeat"
    /\ UNCHANGED <<hasScan, usedKeys, rawKeys, failuresLeft, chanRest, layerVars, otherVars>>

\* inputLoop: checkKeyRepeat(), then sleep_for(5 ms) and the next cycle.
CheckKeyRepeat ==
    /\ pcLoop = "repeat"
    /\ ~exited
    /\ repeatDue(keyRepeat) => keyRepeat.count < RepeatBound(keyRepeat.activeKeyCode)
    /\ SetCapState(Elapsed(checkKeyRepeat(CapState), PollSleepMs))
    /\ pcLoop' = "first"
    /\ UNCHANGED <<device, hasScan, usedKeys, rawKeys, failing, failuresLeft, rc, chanRest,
                   layerVars, otherVars>>

\* n cycles in a row in which both reads return -EAGAIN and checkKeyRepeat
\* fires nothing.  The runs taken are those that end when a timer is at its
\* limit: the repeat is due in the next cycle, or the age of exitTimeout is
\* ExitTimeoutMs or one cycle more.  An age only grows while nothing happens:
\* no repeat was due in the first n - 1 cycles if none is due in the last one.
QuietCycles(n) ==
    /\ pcLoop = "first"
    /\ ~exited
    /\ ~stopThread
    /\ device = <<>>
    /\ ~failing
    /\ ~repeatDue(Elapsed(CapState, (n - 1) * PollSleepMs).keyRepeat)
    /\ LET after == Elapsed(CapState, n * PollSleepMs)
       IN /\ \/ /\ repeatDue(after.keyRepeat)
                /\ keyRepeat.count < RepeatBound(keyRepeat.activeKeyCode)
             \/ /\ exitSequence # <<>>
                /\ sinceExitTimeout + n * PollSleepMs
                       \in {ExitTimeoutMs, ExitTimeoutMs + PollSleepMs}
          /\ SetCapState(after)
    /\ rc' = "EAGAIN"
    /\ UNCHANGED <<device, hasScan, usedKeys, rawKeys, failing, failuresLeft, pcLoop, chanRest,
                   layerVars, otherVars>>

NextCapture ==
    \/ \E k \in usedKeys, v \in {0, 1, 2} : KeyAction(k, v)
    \/ \E k \in usedKeys, v \in {0, 1, 2} : KeyActionAfterFirstRead(k, v)
    \/ DeviceFails
    \/ ProcessAvailableEventsFirst
    \/ ProcessAvailableEvents
    \/ CheckKeyRepeat
    \/ \E n \in 1..(AgeCap \div PollSleepMs) : QuietCycles(n)

SpecCapture == InitCapture /\ [][NextCapture]_vars

(***************************************************************************)
(* Vocabulary of the capture-loop claims.                                  *)
(***************************************************************************)
KeyEvents(evs) == SelectSeq(evs, LAMBDA e : e.type = "EV_KEY")

\* The key events the device has delivered to the loop: those produced and
\* no longer held by the device.
DeliveredKeys == SubSeq(rawKeys, 1, Len(rawKeys) - Len(KeyEvents(device)))

\* The keys physically held as far as the device has told the loop.
PhysicallyHeld == HeldAfter(DeliveredKeys)

(***************************************************************************)
(* C12: in every reachable state of the capture loop, activeKeyCode is     *)
(* unset (-1) or the code of a key whose down event the device has         *)
(* delivered and whose up event it has not yet delivered.                  *)
(***************************************************************************)
C12_TrackedKeyIsHeld ==
    keyRepeat.activeKeyCode = -1 \/ keyRepeat.activeKeyCode \in PhysicallyHeld

\* The step in which the first Repeat event after a Press is pushed; the
\* age keyRepeat.sinceLastTime is then the time since that Press.
FirstRepeatFires == keyRepeat.count = 0 /\ keyRepeat'.count = 1

C14_PlainKeyRepeatDelayIsDefault ==
    (keyRepeat.activeKeyCode # -1 /\ ~IsBackspaceOrDelete(keyRepeat.activeKeyCode))
        => keyRepeat.repeatDelay = 50

\* The Repeat events of key code pushed since its most recent Press.
RepeatsSincePress(code) ==
    LET presses == {i \in 1..Len(eventQueue) :
                       eventQueue[i].type = "Press" /\ eventQueue[i].keyCode = code}
        from == IF presses = {} THEN 0 ELSE CHOOSE i \in presses : \A j \in presses : j <= i
    IN Cardinality({i \in (from + 1)..Len(eventQueue) :
                       eventQueue[i].type = "Repeat" /\ eventQueue[i].keyCode = code})

(***************************************************************************)
(* C15: while backspace or delete is the tracked key and n >= 1 Repeat     *)
(* events have been emitted since its latest Press, the delay required     *)
(* before the next repeat is max(10 ms, 50 ms - 5 ms * n); the count n     *)
(* starts again from 0 with each new Press of the key.                     *)
(***************************************************************************)
C15_BackspaceAcceleration ==
    IsBackspaceOrDelete(keyRepeat.activeKeyCode) =>
        LET n == RepeatsSincePress(keyRepeat.activeKeyCode)
        IN /\ keyRepeat.count = n
           /\ n >= 1 => keyRepeat.repeatDelay = Max(10, 50 - 5 * n)

\* Backspace was held until its delay had reached the floor, released,
\* pressed again, and has repeated once since: the delay is back at 45 ms.
C15_Witness ==
    /\ keyRepeat.activeKeyCode = KeyCode("key_backspace")
    /\ keyRepeat.count = 1
    /\ keyRepeat.repeatDelay = 45
    /\ Cardinality({i \in 1..Len(eventQueue) : eventQueue[i].type = "Repeat"}) >= 10

\* The tracker after a key-down of code is processed ms milliseconds from
\* the state cs.
AfterKeyDown(cs, ms, code) == processInputEvent(Elapsed(cs, ms), RawKeyEvent(code, 1))

\* Ctrl, Alt, Esc go down in that order, the first now, Alt d1 ms after Ctrl
\* and Esc d2 ms after Alt.
AfterChord(d1, d2) ==
    AfterKeyDown(AfterKeyDown(AfterKeyDown(CapState, 0, EMERGENCY_EXIT[1]),
                              d1, EMERGENCY_EXIT[2]),
                 d2, EMERGENCY_EXIT[3])

\* Gaps between two key-downs: none, one poll cycle, the full second, and one
\* poll cycle more than a second.
WithinWindow == {0, PollSleepMs, ExitTimeoutMs}

BeyondWindow == {ExitTimeoutMs + PollSleepMs}

(***************************************************************************)
(* C16: from every reachable state of the emergency-exit tracker, the      *)
(* key-downs of Ctrl, Alt and Esc processed in that order, each within one *)
(* second of the one before, terminate the process.                        *)
(***************************************************************************)
C16_ChordTerminatesFromEveryState ==
    ~exited => \A d1, d2 \in WithinWindow : AfterChord(d1, d2).exited

(***************************************************************************)
(* C17: a chord key-down processed more than one second after the last    *)
(* chord match finds the sequence cleared before it is appended, so from   *)
(* every reachable state Ctrl, Alt, Esc with a gap of more than a second   *)
(* between two of them does not terminate the process.                     *)
(***************************************************************************)
C17_GapOverOneSecondResets ==
    ~exited =>
        /\ \A i \in 1..Len(EMERGENCY_EXIT) :
              sinceExitTimeout > ExitTimeoutMs =>
                  LET r == AfterKeyDown(CapState, 0, EMERGENCY_EXIT[i])
                  IN r.exitSequence = <<EMERGENCY_EXIT[i]>> /\ ~r.exited
        /\ \A d1, d2 \in WithinWindow \cup BeyondWindow :
              (d1 \in BeyondWindow \/ d2 \in BeyondWindow) => ~AfterChord(d1, d2).exited

\* Ctrl, Alt and Esc have gone down in that order and all three key-downs
\* have been processed, Esc more than a second after Alt: the process runs
\* on and the sequence holds Esc alone.
C17_Witness ==
    /\ hasScan
    /\ rawKeys = <<RawKeyEvent(EMERGENCY_EXIT[1], 1), RawKeyEvent(EMERGENCY_EXIT[2], 1),
                   RawKeyEvent(EMERGENCY_EXIT[3], 1)>>
    /\ device = <<>>
    /\ Len(eventQueue) = 5
    /\ exitSequence = <<EMERGENCY_EXIT[3]>>
    /\ ~exited

(***************************************************************************)
(* C18: a key-down of the chord key that is the last entry of the          *)
(* emergency-exit sequence (the sequence as it stands when the key-down is *)
(* processed, that is after the timeout reset of C17) leaves the sequence  *)
(* unchanged and does not terminate the process.                           *)
(***************************************************************************)
C18_RepeatedChordKeyIsNotAppended ==
    LET seq == expireExit(exitSequence, sinceExitTimeout)
    IN (~exited /\ seq # <<>>) =>
           LET r == AfterKeyDown(CapState, 0, seq[Len(seq)])
           IN r.exitSequence = seq /\ ~r.exited

\* Ctrl went down, up and down again within a second, all three events
\* processed: the sequence holds Ctrl once.
C18_Witness ==
    /\ hasScan
    /\ rawKeys = <<RawKeyEvent(EMERGENCY_EXIT[1], 1), RawKeyEvent(EMERGENCY_EXIT[1], 0),
                   RawKeyEvent(EMERGENCY_EXIT[1], 1)>>
    /\ device = <<>>
    /\ Len(eventQueue) = 6
    /\ sinceExitTimeout <= ExitTimeoutMs
    /\ exitSequence = <<EMERGENCY_EXIT[1]>>

\* The loop has processed every raw event the device has produced so far.
AllProcessed == device = <<>> /\ pcLoop # "read" /\ ~exited

(***************************************************************************)
(* C19: whenever the capture loop has processed all raw events delivered   *)
(* so far, modifiers[m] is true if and only if at least one of the keys    *)
(* MODIFIER_MAP maps to m is physically held.                              *)
(***************************************************************************)
C19_ModifierStateMatchesHeldKeys ==
    AllProcessed =>
        \A m \in Modifiers :
            modifiers[m] = (\E c \in DOMAIN MODIFIER_MAP :
                               MODIFIER_MAP[c] = m /\ c \in PhysicallyHeld)

\* The key-downs and key-ups the device has produced, in arrival order.
ArrivedDownsAndUps ==
    LET r == SelectSeq(rawKeys, LAMBDA e : e.value \in {0, 1})
    IN [i \in 1..Len(r) |-> [code |-> r[i].code, value |-> r[i].value]]

\* The key-downs and key-ups the channel shows as processed, in channel
\* order: a Press or a Release for a data key, a RawKey for a modifier key.
ProcessedDownsAndUps ==
    LET q == SelectSeq(eventQueue,
                       LAMBDA e : \/ e.type \in {"Press", "Release"}
                                  \/ e.type = "RawKey" /\ e.value \in {0, 1})
    IN [i \in 1..Len(q) |->
           [code |-> q[i].keyCode,
            value |-> IF q[i].type = "Press" THEN 1
                      ELSE IF q[i].type = "Release" THEN 0 ELSE q[i].value]]

(***************************************************************************)
(* C20: when a capture cycle has read the device empty, every key-down and *)
(* key-up the device has produced has been processed, none skipped: each   *)
(* data-key down has given one Press, each data-key up one Release, and    *)
(* the derived events are on the channel in device arrival order.          *)
(***************************************************************************)
C20_EveryDownAndUpIsProcessedInOrder ==
    AllProcessed => ProcessedDownsAndUps = ArrivedDownsAndUps

\* The state after the kernel's auto-repeat event (value 2) of the key code
\* is processed.
AfterNativeRepeat(code) == processInputEvent(CapState, RawKeyEvent(code, 2))

(***************************************************************************)
(* C21: a native auto-repeat raw event (value 2) of a held key, data key   *)
(* or modifier, pushes no event to the channel and leaves the modifier     *)
(* state as it is.                                                         *)
(***************************************************************************)
C21_NativeRepeatIsSilent ==
    ~exited =>
        \A code \in PhysicallyHeld :
            /\ AfterNativeRepeat(code).eventQueue = eventQueue
            /\ AfterNativeRepeat(code).modifiers = modifiers

(***************************************************************************)
(* main(): the dispatch loop and the shutdown sequence, together with the  *)
(* capture thread that feeds the channel.  The capture thread hands every  *)
(* key event the device reports to processInputEvent (the device reports   *)
(* scan codes), and the key-repeat timer fires when its delay has elapsed: *)
(* the delays are the subject of SpecCapture and are left open here.       *)
(* getEvent is taken as one step, its locking is the subject of            *)
(* SpecChannel.  OutputHandler is an external collaborator: its calls are  *)
(* recorded, sendUnicode returns true or false.                            *)
(***************************************************************************)
MaxKeyActions == 3    \* key events the device reports in one run
MaxTimerRepeats == 1  \* Repeat events the timer fires for one press

chanAux == <<queueMutex, pcCapture, pcDispatch, curEvent, waitLeft, pushed, popped>>
capAux == <<device, hasScan, usedKeys, failing, failuresLeft, pcLoop, rc>>
capCore == <<keyRepeat, modifiers, exitSequence, sinceExitTimeout, exited>>

NoModifiers == [m \in Modifiers |-> FALSE]

\* One call of main: the operation; the type of the event returned
\* (getEvent) or the event type passed (processKeyEvent); the key code and
\* value passed or returned; the optional character passed or returned; the
\* bool returned (false for processKeyEvent: it threw); the modifier map
\* returned.
MainCall(op, type, key, value, out, ok, mods) ==
    [op |-> op, type |-> type, key |-> key, value |-> value, out |-> out, ok |-> ok,
     mods |-> mods]

\* OutputHandler's operations, as the record of calls sees them.
\* Mutant: only key-downs are forwarded.
forwardEvent_downOnly(calls, code, value) ==
    IF value = 1
    THEN Append(calls, MainCall("forwardEvent", "", code, value, nullopt, TRUE, NoModifiers))
    ELSE calls

forwardEvent(calls, code, value) ==
    Append(calls, MainCall("forwardEvent", "", code, value, nullopt, TRUE, NoModifiers))

sendUnicode(calls, character, ok) ==
    Append(calls, MainCall("sendUnicode", "", -1, 0, character, ok, NoModifiers))

releaseAllModifiers(calls) ==
    Append(calls, MainCall("releaseAllModifiers", "", -1, 0, nullopt, TRUE, NoModifiers))

\* The runs: a mapped key, an unmapped key and Ctrl; a mapped key, the hold
\* key of the layout and Shift; the keys of the emergency chord.
DispatchScenarios ==
    {{"key_a", "key_z", "key_leftctrl"},
     {"key_a", "key_b", "key_leftshift"},
     {"key_leftctrl", "key_leftalt", "key_esc"}}

InitDispatch ==
    /\ LayerIdle
    /\ ChannelIdle
    /\ CaptureStart
    /\ hasScan = TRUE
    /\ failuresLeft = 0
    /\ usedKeys \in DispatchScenarios
    /\ OtherIdle

\* The capture thread reads a key event and calls processInputEvent.  For a
\* modifier key the thread is then at the write of the modifier map; for a
\* data key the handler runs to its end.
ProcessInputEvent(keyName, value) ==
    LET ev == RawKeyEvent(KeyCode(keyName), value)
    IN /\ pcInput = "idle"
       /\ ~exited
       /\ ~threadDone
       /\ Len(rawKeys) < MaxKeyActions
       /\ keyName \in usedKeys
       /\ (value = 1) = (ev.code \notin HeldAfter(rawKeys))
       /\ rawKeys' = Append(rawKeys, ev)
       /\ IF ev.code \in DOMAIN MODIFIER_MAP
          THEN /\ SetCapState(trackKeyState(CapState, ev))
               /\ pcInput' = "write"
               /\ curRaw' = ev
          ELSE /\ SetCapState(processInputEvent(CapState, ev))
               /\ UNCHANGED <<pcInput, curRaw>>
       /\ UNCHANGED <<capAux, restVars, chanAux, stopThread, running, layerVars,
                      pcMain, mainEvent, modifierState, trace, threadDone>>

\* processInputEvent, the modifier branch: the write of the modifier map.
WriteModifier ==
    /\ pcInput = "write"
    /\ ~exited
    /\ SetCapState(writeModifier(CapState, curRaw))
    /\ pcInput' = "modifier"
    /\ UNCHANGED <<capAux, restVars, rawKeys, chanAux, stopThread, running, layerVars,
                   pcMain, mainEvent, modifierState, trace, curRaw, threadDone>>

\* processInputEvent, the modifier branch: enqueueEvent of the Modifier event.
EnqueueModifier ==
    /\ pcInput = "modifier"
    /\ ~exited
    /\ SetCapState(enqueueEvent(CapState, ModifierEvent(curRaw)))
    /\ pcInput' = "rawkey"
    /\ UNCHANGED <<capAux, restVars, rawKeys, chanAux, stopThread, running, layerVars,
                   pcMain, mainEvent, modifierState, trace, curRaw, threadDone>>

\* processInputEvent, the modifier branch: enqueueEvent of the RawKey event,
\* and the return.
EnqueueRawKey ==
    /\ pcInput = "rawkey"
    /\ ~exited
    /\ SetCapState(enqueueEvent(CapState, RawKeyEventFor(curRaw)))
    /\ pcInput' = "idle"
    /\ curRaw' = NoEvent
    /\ UNCHANGED <<capAux, restVars, rawKeys, chanAux, stopThread, running, layerVars,
                   pcMain, mainEvent, modifierState, trace, threadDone>>

\* checkKeyRepeat finds the delay of the tracked key elapsed.
TimerRepeat ==
    /\ pcInput = "idle"
    /\ ~exited
    /\ ~threadDone
    /\ keyRepeat.activeKeyCode # -1
    /\ keyRepeat.count < MaxTimerRepeats
    /\ SetCapState(triggerKeyRepeat(CapState))
    /\ UNCHANGED <<capAux, restVars, rawKeys, chanAux, stopThread, running, layerVars, mainVars>>

\* inputLoop: the loop test finds stopThread set; the thread ends.
InputLoopExit ==
    /\ pcInput = "idle"
    /\ ~exited
    /\ ~threadDone
    /\ stopThread
    /\ threadDone' = TRUE
    /\ UNCHANGED <<capVars, restVars, chanVars, layerVars, pcMain, mainEvent, modifierState,
                   trace, pcInput, curRaw>>

\* SIGINT arrives while the process is alive.
Interrupt ==
    /\ ~exited
    /\ pcMain # "done"
    /\ SignalHandler

\* main: while (keydrive::running).
LoopTest ==
    /\ pcMain = "loop"
    /\ ~exited
    /\ pcMain' = IF running THEN "getEvent" ELSE "cleanup"
    /\ UNCHANGED <<capVars, restVars, chanVars, layerVars, mainEvent, modifierState, trace,
                   pcInput, curRaw, threadDone>>

\* main: keyboard.getEvent(100) returns an event.
GetEvent ==
    /\ pcMain = "getEvent"
    /\ ~exited
    /\ eventQueue # <<>>
    /\ mainEvent' = queueFront(eventQueue)
    /\ eventQueue' = queuePop(eventQueue)
    /\ trace' = Append(trace, MainCall("getEvent", queueFront(eventQueue).type,
                                       queueFront(eventQueue).keyCode,
                                       queueFront(eventQueue).value, nullopt, TRUE,
                                       NoModifiers))
    /\ pcMain' = "body"
    /\ UNCHANGED <<capVars, restVars, chanAux, stopThread, running, layerVars, modifierState,
                   pcInput, curRaw, threadDone>>

\* main: keyboard.getEvent(100) times out on the empty queue.
GetEventTimeout ==
    /\ pcMain = "getEvent"
    /\ ~exited
    /\ eventQueue = <<>>
    /\ pcMain' = "loop"
    /\ UNCHANGED <<capVars, restVars, chanVars, layerVars, mainEvent, modifierState, trace,
                   pcInput, curRaw, threadDone>>

\* main, steps 1 and 2 of the loop body: a Release goes to handleKeyRelease
\* and falls through; a RawKey is forwarded and ends the iteration.
DispatchHead ==
    /\ pcMain = "body"
    /\ ~exited
    /\ IF mainEvent.type = "Release"
       THEN /\ ReleaseKeyEffect(mainEvent.keyName)
            /\ trace' = Append(trace, MainCall("handleKeyRelease", "", mainEvent.keyCode, 0,
                                               nullopt, TRUE, NoModifiers))
            /\ pcMain' = "mods"
       ELSE /\ UNCHANGED layerVars
            /\ IF mainEvent.type = "RawKey"
               THEN /\ trace' = forwardEvent(trace, mainEvent.keyCode, mainEvent.value)
                    /\ pcMain' = "loop"
               ELSE /\ UNCHANGED trace
                    /\ pcMain' = "mods"
    /\ UNCHANGED <<capVars, restVars, chanVars, mainEvent, modifierState, pcInput, curRaw, threadDone>>

\* main, step 3: keyboard.getModifierState() starts to copy the modifier map.
GetModifierStateBegin ==
    /\ pcMain = "mods"
    /\ ~exited
    /\ pcMain' = "reading"
    /\ UNCHANGED <<capVars, restVars, chanVars, layerVars, mainEvent, modifierState, trace,
                   pcInput, curRaw, threadDone>>

\* getModifierState returns its copy.  A copy taken while the capture thread
\* writes the map holds the value from before or from after the write: the
\* copy is what the map holds at one moment between Begin and End.
GetModifierStateEnd ==
    /\ pcMain = "reading"
    /\ ~exited
    /\ modifierState' = modifiers
    /\ trace' = Append(trace, MainCall("getModifierState", "", -1, 0, nullopt, TRUE,
                                       modifiers))
    /\ pcMain' = "key"
    /\ UNCHANGED <<capVars, restVars, chanVars, layerVars, mainEvent, pcInput, curRaw, threadDone>>

\* Mutant: Shift bypasses as well.
bypassRemapping_withShift(mods) ==
    mods["Shift"] \/ mods["Ctrl"] \/ mods["Alt"] \/ mods["Super"]

bypassRemapping(mods) == mods["Ctrl"] \/ mods["Alt"] \/ mods["Super"]

\* main, steps 4 and 5: a Press or Repeat goes to processKeyEvent; the
\* character it returns is sent unless bypassRemapping; sendUnicode returns ok.
DispatchKey(ok) ==
    /\ pcMain = "key"
    /\ ~exited
    /\ IF mainEvent.type \in {"Press", "Repeat"}
       THEN LET eventType == IF mainEvent.type = "Press" THEN "press" ELSE "repeat"
                out == processKeyEvent(layerState, state, stateFile, toggleOrder,
                                       mainEvent.keyName, mainEvent.keyCode, eventType).out
                called == Append(trace, MainCall("processKeyEvent", eventType,
                                                 mainEvent.keyCode, 0, out, TRUE,
                                                 NoModifiers))
            IN /\ ProcessKeyEffect(mainEvent.keyName, eventType)
               /\ trace' = IF ~bypassRemapping(modifierState) /\ out # nullopt
                           THEN sendUnicode(called, out, ok)
                           ELSE called
       ELSE UNCHANGED <<layerVars, trace>>
    /\ pcMain' = "loop"
    /\ UNCHANGED <<capVars, restVars, chanVars, mainEvent, modifierState, pcInput, curRaw, threadDone>>

\* processKeyEvent throws a std::exception before it has changed anything:
\* main's catch block.
DispatchThrows ==
    /\ pcMain = "key"
    /\ ~exited
    /\ mainEvent.type \in {"Press", "Repeat"}
    /\ trace' = Append(trace, MainCall("processKeyEvent",
                                       IF mainEvent.type = "Press" THEN "press" ELSE "repeat",
                                       mainEvent.keyCode, 0, nullopt, FALSE, NoModifiers))
    /\ pcMain' = "cleanup"
    /\ UNCHANGED <<capVars, restVars, chanVars, layerVars, mainEvent, modifierState,
                   pcInput, curRaw, threadDone>>

\* main after the loop: output.releaseAllModifiers().
ReleaseAllModifiers ==
    /\ pcMain = "cleanup"
    /\ ~exited
    /\ trace' = releaseAllModifiers(trace)
    /\ pcMain' = "destroy"
    /\ UNCHANGED <<capVars, restVars, chanVars, layerVars, mainEvent, modifierState,
                   pcInput, curRaw, threadDone>>

\* return 0 destroys keyboard last: ~InputHandlerImpl sets stopThread.
DestructorStops ==
    /\ pcMain = "destroy"
    /\ ~exited
    /\ stopThread' = TRUE
    /\ pcMain' = "join"
    /\ UNCHANGED <<capVars, restVars, eventQueue, running, chanAux, layerVars, mainEvent,
                   modifierState, trace, pcInput, curRaw, threadDone>>

\* Mutant: the destructor does not wait for the thread to end.
DestructorJoins_noWait ==
    /\ pcMain = "join"
    /\ ~exited
    /\ trace' = Append(trace, MainCall("join", "", -1, 0, nullopt, TRUE, NoModifiers))
    /\ pcMain' = "free"
    /\ UNCHANGED <<capVars, restVars, chanVars, layerVars, mainEvent, modifierState,
                   pcInput, curRaw, threadDone>>

\* ~InputHandlerImpl: inputThread.join() returns once the thread has ended.
DestructorJoins ==
    /\ pcMain = "join"
    /\ ~exited
    /\ threadDone
    /\ trace' = Append(trace, MainCall("join", "", -1, 0, nullopt, TRUE, NoModifiers))
    /\ pcMain' = "free"
    /\ UNCHANGED <<capVars, restVars, chanVars, layerVars, mainEvent, modifierState,
                   pcInput, curRaw, threadDone>>

\* ~InputHandlerImpl: libevdev_free(physKb); close(deviceFd); the process
\* ends with the status main returned.
DestructorFrees ==
    /\ pcMain = "free"
    /\ ~exited
    /\ trace' = Append(Append(trace, MainCall("libevdev_free", "", -1, 0, nullopt, TRUE,
                                              NoModifiers)),
                       MainCall("close", "", -1, 0, nullopt, TRUE, NoModifiers))
    /\ pcMain' = "done"
    /\ UNCHANGED <<capVars, restVars, chanVars, layerVars, mainEvent, modifierState,
                   pcInput, curRaw, threadDone>>

NextDispatch ==
    \/ \E k \in usedKeys, v \in {0, 1, 2} : ProcessInputEvent(k, v)
    \/ WriteModifier
    \/ EnqueueModifier
    \/ EnqueueRawKey
    \/ TimerRepeat
    \/ InputLoopExit
    \/ Interrupt
    \/ LoopTest
    \/ GetEvent
    \/ GetEventTimeout
    \/ DispatchHead
    \/ GetModifierStateBegin
    \/ GetModifierStateEnd
    \/ \E ok \in BOOLEAN : DispatchKey(ok)
    \/ DispatchThrows
    \/ ReleaseAllModifiers
    \/ DestructorStops
    \/ DestructorJoins
    \/ DestructorFrees

SpecDispatch == InitDispatch /\ [][NextDispatch]_vars

(***************************************************************************)
(* Vocabulary of the dispatcher claims: the calls main makes for one       *)
(* event, read from the record of its calls.                               *)
(***************************************************************************)
\* The position in the record where the handling of the event returned at
\* position i ends: the next getEvent, or the start of the shutdown.
HandlingEnd(i) ==
    LET later == {j \in (i + 1)..Len(trace) :
                     trace[j].op \in {"getEvent", "releaseAllModifiers"}}
    IN IF later = {} THEN Len(trace) + 1
       ELSE CHOOSE j \in later : \A k \in later : j <= k

\* The calls main made to handle the event returned at position i.
Handling(i) == SubSeq(trace, i + 1, HandlingEnd(i) - 1)

\* The loop body has finished with the event returned at position i.
Handled(i) ==
    HandlingEnd(i) <= Len(trace) \/ pcMain \notin {"body", "mods", "reading", "key"}

\* The positions of the handled events of the given types.
HandledEvents(types) ==
    {i \in DOMAIN trace : trace[i].op = "getEvent" /\ trace[i].type \in types /\ Handled(i)}

(***************************************************************************)
(* C22: every RawKey event the dispatcher has popped and handled caused    *)
(* exactly one call, forwardEvent with the event's key code and value: no  *)
(* call into the layer engine, no character delivery.                      *)
(***************************************************************************)
C22_RawKeyIsForwardedOnce ==
    \A i \in HandledEvents({"RawKey"}) :
        /\ Len(Handling(i)) = 1
        /\ Handling(i)[1].op = "forwardEvent"
        /\ Handling(i)[1].key = trace[i].key
        /\ Handling(i)[1].value = trace[i].value

\* The down and the up of a modifier key have both been forwarded.
C22_Witness ==
    /\ pcMain = "loop"
    /\ \E i, j \in HandledEvents({"RawKey"}) :
          /\ i < j
          /\ trace[i].value = 1
          /\ trace[j].value = 0
          /\ trace[j].key = trace[i].key

\* The calls main made for a Press or Repeat event are getModifierState and
\* one processKeyEvent for the event's key, followed by one sendUnicode of
\* the character returned if deliver, by nothing otherwise.
KeyHandling(i, deliver) ==
    LET calls == Handling(i)
    IN /\ Len(calls) = IF deliver THEN 3 ELSE 2
       /\ calls[1].op = "getModifierState"
       /\ calls[2].op = "processKeyEvent"
       /\ calls[2].key = trace[i].key
       /\ calls[2].type = (IF trace[i].type = "Press" THEN "press" ELSE "repeat")
       /\ deliver => calls[3].op = "sendUnicode" /\ calls[3].out = calls[2].out

FailedDeliveryThenNextEvent ==
    \E i \in HandledEvents({"Press", "Repeat"}) :
        /\ Handling(i)[1].mods["Shift"]
        /\ Len(Handling(i)) = 3
        /\ ~Handling(i)[3].ok
        /\ \E j \in HandledEvents({"Press", "Repeat"}) : j > i

\* The Press returned at position i was discarded because of bypass, or
\* processKeyEvent returned no output for it because its key is not in
\* keyPositions.
LeftToTheSystem(i) ==
    \/ bypassRemapping(Handling(i)[1].mods)
    \/ /\ Handling(i)[2].out = nullopt
       /\ keyCodeToName(trace[i].key) \notin DOMAIN keyPositions

(***************************************************************************)
(* C24: whenever the dispatcher has discarded a Press because bypass was   *)
(* true, or processKeyEvent has returned no output for it because the key  *)
(* is not in keyPositions, the key-down of that key has been forwarded to  *)
(* the output sink (forwardEvent with the key's code and value 1).         *)
(***************************************************************************)
C24_UnmappedPressIsForwarded ==
    \A i \in HandledEvents({"Press"}) :
        LeftToTheSystem(i) =>
            \E j \in 1..(HandlingEnd(i) - 1) :
                /\ trace[j].op = "forwardEvent"
                /\ trace[j].key = trace[i].key
                /\ trace[j].value = 1

(***************************************************************************)
(* C25: getModifierState never copies the modifier map while the capture   *)
(* thread is at its write of the map in processInputEvent.                 *)
(***************************************************************************)
C25_ModifierReadExcludesWrite ==
    ~(pcMain = "reading" /\ pcInput = "write")

(***************************************************************************)
(* The shutdown under fair scheduling: the main thread takes its next step *)
(* when it has one (getEvent waits at most 100 ms, the calls of the loop   *)
(* body return), the capture thread finishes the handler it is in and      *)
(* tests stopThread at the head of each cycle of inputLoop.                *)
(***************************************************************************)
MainStep ==
    \/ LoopTest
    \/ GetEvent
    \/ GetEventTimeout
    \/ DispatchHead
    \/ GetModifierStateBegin
    \/ GetModifierStateEnd
    \/ \E ok \in BOOLEAN : DispatchKey(ok)
    \/ ReleaseAllModifiers
    \/ DestructorStops
    \/ DestructorJoins
    \/ DestructorFrees

SpecShutdown ==
    /\ SpecDispatch
    /\ WF_vars(MainStep)
    /\ WF_vars(WriteModifier \/ EnqueueModifier \/ EnqueueRawKey)
    /\ WF_vars(InputLoopExit)

\* The operations main has called so far.
Ops == {trace[i].op : i \in DOMAIN trace}

\* Shutdown has started: SIGINT has cleared running, or main is in its catch
\* block.
ShutdownStarted == ~running \/ pcMain = "cleanup"

\* releaseAllModifiers before the capture thread is stopped; the join after
\* stopThread is set and the thread has ended; the device handle freed and
\* closed after the join; the process ends (return 0) after that.
ShutdownOrder ==
    /\ stopThread => "releaseAllModifiers" \in Ops
    /\ "join" \in Ops => stopThread /\ threadDone
    /\ \A j \in DOMAIN trace :
          trace[j].op \in {"libevdev_free", "close"} =>
              \E i \in 1..(j - 1) : trace[i].op = "join"
    /\ pcMain = "done" => {"libevdev_free", "close"} \subseteq Ops

(***************************************************************************)
(* C26: once shutdown has started (SIGINT has set the flag, or main has    *)
(* caught an exception) the process always goes through the whole         *)
(* sequence to its end with status 0: the loop exits, releaseAllModifiers  *)
(* is called, the capture thread is stopped and joined, and only after the *)
(* join the device handle is freed and closed.                             *)
(***************************************************************************)
C26_ShutdownSequenceCompletes ==
    /\ ShutdownStarted ~> (pcMain = "done")
    /\ []ShutdownOrder

(***************************************************************************)
(* C26 as amended: once shutdown has started the process goes through the  *)
(* whole sequence in that order to its end with status 0, unless the       *)
(* emergency-exit chord completes first and terminates the process at      *)
(* once (also with status 0).                                              *)
(***************************************************************************)
C26_ShutdownSequenceCompletesUnlessChord ==
    /\ ShutdownStarted ~> (pcMain = "done" \/ exited)
    /\ []ShutdownOrder

\* The process has ended after a SIGINT that left events in the channel.
C26_Witness ==
    /\ pcMain = "done"
    /\ ~running
    /\ eventQueue # <<>>
    /\ "forwardEvent" \in Ops

(***************************************************************************)
(* C27: the step in which the emergency-exit chord completes ends the      *)
(* process inside the capture thread: in that step and ever after no event *)
(* is pushed to the channel (none for the completing key-down) and main    *)
(* makes no call (no releaseAllModifiers, no join, no release of the       *)
(* device handle); the capture thread has not been joined and the device   *)
(* handle has not been released when the process ends this way.            *)
(***************************************************************************)
C27_ChordEndsTheProcessAtOnce ==
    /\ [][exited' => /\ eventQueue' = eventQueue
                     /\ trace' = trace
                     /\ pcMain' = pcMain
                     /\ threadDone' = threadDone]_vars
    /\ [](exited => /\ ~threadDone
                    /\ Ops \cap {"join", "libevdev_free", "close"} = {})

\* Ctrl, Alt and Esc have gone down; the process has ended with the events
\* of Ctrl and Alt pushed and main still in its loop.
C27_Witness ==
    /\ exited
    /\ rawKeys = <<RawKeyEvent(EMERGENCY_EXIT[1], 1), RawKeyEvent(EMERGENCY_EXIT[2], 1),
                   RawKeyEvent(EMERGENCY_EXIT[3], 1)>>
    /\ running
    /\ "releaseAllModifiers" \notin Ops
    /\ \A i \in DOMAIN eventQueue : eventQueue[i].keyCode # EMERGENCY_EXIT[3]

(***************************************************************************)
(* The UTF-8 conversions: utf32ToUtf8 (output side) and stringToChar32     *)
(* (layout side).  A run encodes a code point and decodes the result, or   *)
(* decodes a given byte string.  c >> n is c \div 2^n, c & 0x3F is         *)
(* c % 64; static_cast<char> keeps the byte, which stringToChar32 reads    *)
(* back as unsigned char.                                                  *)
(***************************************************************************)
SampleWidth == 8   \* code points taken on each side of a range boundary
MaxUtf8Len == 4    \* length of the byte strings given to stringToChar32

\* Mutant: the lead byte of a 3-byte sequence keeps three bits only.
utf32ToUtf8_narrowLead(c) ==
    IF c <= 127 THEN <<c>>
    ELSE IF c <= 2047 THEN <<192 + ((c \div 64) % 32), 128 + (c % 64)>>
    ELSE IF c <= 65535
    THEN <<224 + ((c \div 4096) % 8), 128 + ((c \div 64) % 64), 128 + (c % 64)>>
    ELSE IF c <= 1114111
    THEN <<240 + ((c \div 262144) % 8), 128 + ((c \div 4096) % 64),
           128 + ((c \div 64) % 64), 128 + (c % 64)>>
    ELSE <<>>

utf32ToUtf8(c) ==
    IF c <= 127 THEN <<c>>
    ELSE IF c <= 2047 THEN <<192 + ((c \div 64) % 32), 128 + (c % 64)>>
    ELSE IF c <= 65535
    THEN <<224 + ((c \div 4096) % 16), 128 + ((c \div 64) % 64), 128 + (c % 64)>>
    ELSE IF c <= 1114111
    THEN <<240 + ((c \div 262144) % 8), 128 + ((c \div 4096) % 64),
           128 + ((c \div 64) % 64), 128 + (c % 64)>>
    ELSE <<>>

\* The first and last code point of each encoded length, the surrogates'
\* first and last, the space that stringToChar32 treats apart.
RangeEdges == {0, 32, 127, 128, 2047, 2048, 55295, 55296, 57343, 57344, 65535, 65536, 1114111}

CodePoints ==
    UNION {Max(0, e - SampleWidth)..Min(e + SampleWidth, 1114111) : e \in RangeEdges}

\* Bytes of every class: ASCII, continuation bytes (0x80, 0x8F, 0x90, 0x9F,
\* 0xA0, 0xBF), lead bytes of 2 (0xC0, 0xC2), 3 (0xE0, 0xED) and 4 bytes
\* (0xF0, 0xF4), and 0xF8.
SampleBytes == {65, 128, 143, 144, 159, 160, 191, 192, 194, 224, 237, 240, 244, 248}

ByteStrings == UNION {[1..n -> SampleBytes] : n \in 0..MaxUtf8Len}

InitUtf ==
    /\ LayerIdle
    /\ ChannelIdle
    /\ CaptureIdle
    /\ MainIdle
    /\ SelectIdle
    /\ LoadIdle
    /\ decoded = {}
    /\ \/ codePoint \in CodePoints /\ utf8 = <<>> /\ pcUtf = "encode"
       \/ codePoint = -1 /\ utf8 \in ByteStrings /\ pcUtf = "decode"

\* sendUnicode: std::string utf8 = utf32ToUtf8(character).
Utf32ToUtf8 ==
    /\ pcUtf = "encode"
    /\ utf8' = utf32ToUtf8(codePoint)
    /\ pcUtf' = "decode"
    /\ UNCHANGED <<codePoint, decoded, layerVars, chanVars, capVars, mainVars, selVars, loadVars>>

\* loadLayout: stringToChar32 on a symbol of the layout.
StringToChar32 ==
    /\ pcUtf = "decode"
    /\ decoded' = stringToChar32(utf8)
    /\ pcUtf' = "done"
    /\ UNCHANGED <<codePoint, utf8, layerVars, chanVars, capVars, mainVars, selVars, loadVars>>

NextUtf ==
    \/ Utf32ToUtf8
    \/ StringToChar32

SpecUtf == InitUtf /\ [][NextUtf]_vars

(***************************************************************************)
(* C28: decoding inverts encoding: for every code point c of the sample    *)
(* (the edges of the 1-, 2-, 3- and 4-byte ranges and their neighbours),   *)
(* stringToChar32(utf32ToUtf8(c)) returns c.                               *)
(***************************************************************************)
C28_DecodeInvertsEncode ==
    (pcUtf = "done" /\ codePoint # -1) => decoded = Some(codePoint)

\* U+10FFFF has been encoded in four bytes and decoded.
C28_Witness ==
    /\ pcUtf = "done"
    /\ codePoint = 1114111
    /\ utf8 = <<244, 143, 191, 191>>
    /\ decoded = Some(1114111)

\* Standard UTF-8: the length of the well-formed sequence str starts with,
\* 0 if it starts with none.  Well-formed excludes overlong forms (lead
\* bytes 0xC0, 0xC1; 0xE0 before 0xA0; 0xF0 before 0x90), the surrogates
\* (0xED from 0xA0) and values above U+10FFFF (0xF4 from 0x90; 0xF5 and up).
WellFormedLength(str) ==
    LET b(i) == str[i]
        cont(i) == i <= Len(str) /\ IsCont(b(i))
        within(i, lo, hi) == i <= Len(str) /\ b(i) >= lo /\ b(i) <= hi
    IN IF str = <<>> THEN 0
       ELSE IF b(1) < 128 THEN 1
       ELSE IF b(1) >= 194 /\ b(1) <= 223 /\ cont(2) THEN 2
       ELSE IF \/ b(1) = 224 /\ within(2, 160, 191) /\ cont(3)
               \/ b(1) >= 225 /\ b(1) <= 236 /\ cont(2) /\ cont(3)
               \/ b(1) = 237 /\ within(2, 128, 159) /\ cont(3)
               \/ b(1) >= 238 /\ b(1) <= 239 /\ cont(2) /\ cont(3) THEN 3
       ELSE IF \/ b(1) = 240 /\ within(2, 144, 191) /\ cont(3) /\ cont(4)
               \/ b(1) >= 241 /\ b(1) <= 243 /\ cont(2) /\ cont(3) /\ cont(4)
               \/ b(1) = 244 /\ within(2, 128, 143) /\ cont(3) /\ cont(4) THEN 4
       ELSE 0

\* str is a valid standard UTF-8 encoding: well-formed sequences end to end.
RECURSIVE ValidUtf8(_)
ValidUtf8(str) ==
    \/ str = <<>>
    \/ /\ WellFormedLength(str) > 0
       /\ ValidUtf8(SubSeq(str, WellFormedLength(str) + 1, Len(str)))

(***************************************************************************)
(* C29: for every byte string that is empty or is not a valid standard     *)
(* UTF-8 encoding (truncated sequence, lone or wrong continuation byte,    *)
(* overlong form, surrogate, value above U+10FFFF), stringToChar32 returns *)
(* no character.                                                           *)
(***************************************************************************)
C29_InvalidUtf8YieldsNoCharacter ==
    (pcUtf = "done" /\ codePoint = -1 /\ (utf8 = <<>> \/ ~ValidUtf8(utf8)))
        => decoded = nullopt

(***************************************************************************)
(* Device selection: findPhysicalKeyboard.  A device is what libevdev      *)
(* reports of it: its event types, how many of PHYSICAL_KEYS it has, its   *)
(* phys string and its name (a byte string).  sscanf(phys, "input%d")      *)
(* yields a number only when phys starts with "input": phys is kept as     *)
(* its start and the number that follows it.                               *)
(***************************************************************************)
MaxDevices == 3    \* event devices in /dev/input

MinPhysicalKeys == 30

n_keyboard == <<107, 101, 121, 98, 111, 97, 114, 100>>   \* keyboard
n_Keyboard == <<75, 101, 121, 98, 111, 97, 114, 100>>    \* Keyboard
n_kbd == <<107, 98, 100>>                                \* kbd

\* std::strstr(name, sub) != nullptr
strstr(str, sub) ==
    \E i \in 0..(Len(str) - Len(sub)) : SubSeq(str, i + 1, i + Len(sub)) = sub

\* std::string operator<: the first byte that differs decides, a proper
\* prefix is less.
StringLess(a, b) ==
    \E i \in 1..(Len(b)) :
        /\ \A j \in 1..(i - 1) : j <= Len(a) /\ a[j] = b[j]
        /\ i - 1 <= Len(a)
        /\ i > Len(a) \/ a[i] < b[i]

Phys(lead, n) == [lead |-> lead, n |-> n]

\* Steps 5 of the scan: endpoint stays -1 unless sscanf reads a number.
parseEndpoint(phys) == IF phys.lead = "input" THEN phys.n ELSE -1

\* Step 6 of the scan: the priority score.
priorityScore(endpoint, name) ==
    (IF endpoint = 0 THEN 100
     ELSE IF endpoint # -1 THEN 50 - endpoint
     ELSE 0)
    + (IF strstr(name, n_keyboard) THEN 10 ELSE 0)

\* Steps 1 to 4 of the scan: key and LED capability, no pointer capability,
\* at least 30 of the physical keys.
Qualifies(dev) ==
    /\ "EV_KEY" \in dev.types
    /\ "EV_LED" \in dev.types
    /\ "EV_REL" \notin dev.types
    /\ "EV_ABS" \notin dev.types
    /\ dev.physicalCount >= MinPhysicalKeys

KeyboardCandidate(dev) ==
    [score |-> priorityScore(parseEndpoint(dev.phys), dev.name),
     endpoint |-> parseEndpoint(dev.phys),
     name |-> dev.name]

\* The comparator given to std::sort.
candidateBefore(a, b) ==
    IF a.score # b.score THEN a.score > b.score
    ELSE IF a.endpoint # b.endpoint
    THEN (IF a.endpoint = -1 THEN FALSE
          ELSE IF b.endpoint = -1 THEN TRUE
          ELSE a.endpoint < b.endpoint)
    ELSE StringLess(a.name, b.name)

\* The devices of the runs: a mouse, a keypad with too few keys, and
\* keyboards with every sample phys and name.
SampleDevices ==
    {[types |-> {"EV_KEY", "EV_REL"}, physicalCount |-> 0,
      phys |-> Phys("input", 0), name |-> n_kbd],
     [types |-> {"EV_KEY", "EV_LED"}, physicalCount |-> MinPhysicalKeys - 1,
      phys |-> Phys("input", 0), name |-> n_keyboard]}
    \cup {[types |-> {"EV_KEY", "EV_LED"}, physicalCount |-> MinPhysicalKeys,
           phys |-> p, name |-> n] :
             p \in {Phys("none", 0), Phys("usb", 0), Phys("input", 0),
                    Phys("input", 2), Phys("input", 5)},
             n \in {n_keyboard, n_Keyboard, n_kbd}}

InitSelect ==
    /\ LayerIdle
    /\ ChannelIdle
    /\ CaptureIdle
    /\ MainIdle
    /\ UtfIdle
    /\ LoadIdle
    /\ found \in UNION {[1..n -> SampleDevices] : n \in 0..MaxDevices}
    /\ candidates = <<>>
    /\ deviceName = ""
    /\ pcSelect = "scan"

\* The readdir loop: every device that passes steps 1 to 4 is pushed.
ScanDevices ==
    /\ pcSelect = "scan"
    /\ candidates' = [i \in 1..Len(SelectSeq(found, Qualifies)) |->
                         KeyboardCandidate(SelectSeq(found, Qualifies)[i])]
    /\ pcSelect' = "sort"
    /\ UNCHANGED <<found, deviceName, layerVars, chanVars, capVars, mainVars, utfVars, loadVars>>

\* std::sort: some order of the candidates in which none comes after one it
\* is before (std::sort is not stable).
SortCandidates ==
    /\ pcSelect = "sort"
    /\ \E order \in Perms(DOMAIN candidates) :
          /\ \A i, j \in DOMAIN candidates :
                i < j => ~candidateBefore(candidates[order[j]], candidates[order[i]])
          /\ candidates' = [i \in DOMAIN candidates |-> candidates[order[i]]]
    /\ pcSelect' = "select"
    /\ UNCHANGED <<found, deviceName, layerVars, chanVars, capVars, mainVars, utfVars, loadVars>>

\* No candidate: throw.  Else the front is taken and grabbed; a grab that
\* fails throws as well.
SelectBest(grabbed) ==
    /\ pcSelect = "select"
    /\ IF candidates = <<>>
       THEN pcSelect' = "failed" /\ UNCHANGED deviceName
       ELSE /\ deviceName' = candidates[1].name
            /\ pcSelect' = IF grabbed THEN "done" ELSE "failed"
    /\ UNCHANGED <<found, candidates, layerVars, chanVars, capVars, mainVars, utfVars, loadVars>>

NextSelect ==
    \/ ScanDevices
    \/ SortCandidates
    \/ \E grabbed \in BOOLEAN : SelectBest(grabbed)

SpecSelect == InitSelect /\ [][NextSelect]_vars

\* The score the claim gives: the name is compared case-insensitively.
ScoreIgnoringCase(endpoint, name) ==
    (IF endpoint = 0 THEN 100
     ELSE IF endpoint # -1 THEN 50 - endpoint
     ELSE 0)
    + (IF strstr(toLower(name), n_keyboard) THEN 10 ELSE 0)

\* Device a comes before device b in the claim's order: score descending,
\* then endpoint ascending with no endpoint last, then name ascending.
BeforeInClaimedOrder(a, b) ==
    LET ea == parseEndpoint(a.phys)
        eb == parseEndpoint(b.phys)
        sa == ScoreIgnoringCase(ea, a.name)
        sb == ScoreIgnoringCase(eb, b.name)
    IN \/ sa > sb
       \/ sa = sb /\ ea # eb /\ ea # -1 /\ (eb = -1 \/ ea < eb)
       \/ sa = sb /\ ea = eb /\ StringLess(a.name, b.name)

\* The scenario of the spec: endpoint 0 without "keyboard" in its name, and
\* endpoint 2 with "Keyboard" in its name.
ScenarioDevices ==
    {[types |-> {"EV_KEY", "EV_LED"}, physicalCount |-> MinPhysicalKeys,
      phys |-> Phys("input", 0), name |-> n_kbd],
     [types |-> {"EV_KEY", "EV_LED"}, physicalCount |-> MinPhysicalKeys,
      phys |-> Phys("input", 2), name |-> n_Keyboard]}

(***************************************************************************)
(* C30: the device selected is a first qualifying candidate under the      *)
(* order score descending, then endpoint ascending with no endpoint last,  *)
(* then name ascending, with score = 100 for endpoint 0, else              *)
(* 50 - endpoint for a parsed endpoint, else 0, plus 10 if the name        *)
(* contains "keyboard" compared case-insensitively; of the two devices of  *)
(* the scenario the one with endpoint 0 is selected.                       *)
(***************************************************************************)
C30_SelectsFirstInClaimedOrder ==
    pcSelect = "done" =>
        LET qualifying == SelectSeq(found, Qualifies)
        IN /\ \E i \in DOMAIN qualifying :
                 /\ qualifying[i].name = candidates[1].name
                 /\ parseEndpoint(qualifying[i].phys) = candidates[1].endpoint
                 /\ \A j \in DOMAIN qualifying :
                        ~BeforeInClaimedOrder(qualifying[j], qualifying[i])
           /\ {found[i] : i \in DOMAIN found} = ScenarioDevices => deviceName = n_kbd

(***************************************************************************)
(* The channel under fair scheduling: a thread that can take its next step *)
(* takes it, the steady clock advances, and a thread that asks for         *)
(* queueMutex gets it in the end (the capture thread sleeps PollSleepMs    *)
(* between two cycles, so the mutex is free again and again).              *)
(***************************************************************************)
DispatchThreadStep == GetEventCall \/ GetEventEmpty \/ WaitEnds \/ GetEventPop \/ Tick

CaptureThreadStep == EnqueuePush \/ EnqueueNotify

SpecChannelFair ==
    /\ SpecChannel
    /\ WF_vars(DispatchThreadStep)
    /\ WF_vars(CaptureThreadStep)
    /\ SF_vars(GetEventLock)
    /\ SF_vars(GetEventWake)

Returned(e) == \E i \in DOMAIN popped : popped[i] = e

Pushed(e) == \E i \in DOMAIN pushed : pushed[i] = e

DispatchLoopStopped == ~running \/ stopThread

(***************************************************************************)
(* C31: every event pushed by the capture thread is returned by getEvent   *)
(* at most once, and, unless the dispatch loop stops, every pushed event   *)
(* is eventually returned (no duplication, no loss).                       *)
(***************************************************************************)
C31_EveryEventReturnedExactlyOnce ==
    /\ [](\A i, j \in DOMAIN popped : popped[i] = popped[j] => i = j)
    /\ \A e \in 1..MaxPush : Pushed(e) ~> (Returned(e) \/ DispatchLoopStopped)

\* Every event the capture thread can create has been returned, the last one
\* to a getEvent call whose predecessor timed out on the empty queue, and
\* the loop is still running.
C31_Witness ==
    /\ Len(popped) = MaxPush
    /\ eventQueue = <<>>
    /\ ~DispatchLoopStopped
    /\ pcDispatch = "idle"

\* The raw down and up events of the modifier keys in use.
ModifierTransitions ==
    {RawKeyEvent(KeyCode(k), v) : k \in {n \in usedKeys : KeyCode(n) \in DOMAIN MODIFIER_MAP},
                                  v \in {0, 1}}

\* The event the step pushes, if it pushes one.
PushesEvent == Len(eventQueue') = Len(eventQueue) + 1

NewEvent == eventQueue'[Len(eventQueue')]

(***************************************************************************)
(* C32: for a raw down or up event of a modifier key, processInputEvent    *)
(* writes the modifier map first and then pushes exactly two events with   *)
(* that key code, a Modifier event and then a RawKey event with the raw    *)
(* value, and no Press or Release; so at the step that makes either event  *)
(* visible to the dispatcher the modifier map already holds the            *)
(* transition.                                                             *)
(***************************************************************************)
C32_ModifierWriteThenTwoEvents ==
    /\ [](pcInput = "idle" /\ ~exited =>
            \A ev \in ModifierTransitions :
                LET after == processInputEvent(CapState, ev)
                IN /\ after.modifiers =
                          [modifiers EXCEPT ![MODIFIER_MAP[ev.code]] = (ev.value = 1)]
                   /\ after.eventQueue =
                          eventQueue \o
                          <<InputEvent("Modifier", ev.code, ev.value = 1, 0),
                            InputEvent("RawKey", ev.code, FALSE, ev.value)>>)
    /\ [][/\ (pcInput = "idle" /\ pcInput' = "write") => ~PushesEvent
          /\ (pcInput = "write" /\ pcInput' # "write") =>
                 /\ ~PushesEvent
                 /\ modifiers'[MODIFIER_MAP[curRaw.code]] = (curRaw.value > 0)
          /\ (PushesEvent /\ NewEvent.type \in {"Modifier", "RawKey"}) =>
                 /\ NewEvent.keyCode = curRaw.code
                 /\ NewEvent.type = (IF pcInput = "modifier" THEN "Modifier" ELSE "RawKey")
                 /\ pcInput' = (IF pcInput = "modifier" THEN "rawkey" ELSE "idle")
                 /\ modifiers[MODIFIER_MAP[curRaw.code]] = (curRaw.value > 0)
                 /\ modifiers' = modifiers
          /\ (PushesEvent /\ pcInput \in {"write", "modifier", "rawkey"}) =>
                 NewEvent.type \in {"Modifier", "RawKey"}]_vars

\* The dispatcher has the Modifier event of a key-up in hand while the
\* capture thread has not yet pushed the RawKey event of the same key-up:
\* the modifier map already says released.
C32_Witness ==
    /\ pcMain = "body"
    /\ mainEvent.type = "Modifier"
    /\ pcInput = "rawkey"
    /\ curRaw.code = mainEvent.keyCode
    /\ curRaw.value = 0
    /\ ~modifiers[MODIFIER_MAP[curRaw.code]]
    /\ eventQueue = <<>>

(***************************************************************************)
(* loadLayout, step by step.  The file <layoutsDir>/default.kbd holds one  *)
(* of the documents below; here a layer may be shorter or longer than      *)
(* "source", and "source" may name a key twice.  In the loop over the      *)
(* layers, "YAML::Node& layer = it->second" binds a reference to a member  *)
(* of the temporary that the iterator's operator-> returns; the temporary  *)
(* is gone at the end of that statement, and every later use of layer      *)
(* reads through a dangling reference.  What the build makes of it is left *)
(* open: the old bytes are still in place and layer is the handle of the   *)
(* layer ("intact"); the storage holds another node by then, and the       *)
(* checks and the changes made through layer do not reach the layer        *)
(* ("stale"); or the use faults and loadLayout does not return ("fault").  *)
(***************************************************************************)
\* A short layer (sym) and a long one (base).
RawShortLong ==
    [source |-> <<"key_a", "key_b", "key_c">>,
     layers |-> [l \in {"base", "sym"} |->
                    IF l = "base" THEN <<s_x, s_ly1, s_y, s_z>> ELSE <<s_z>>],
     layer_keys |-> <<LayerKeyEntry("sym", <<s_ly1>>, TRUE, s_hold)>>]

\* "source" names key_a twice.
RawDuplicate ==
    [source |-> <<"key_a", "key_b", "key_a">>,
     layers |-> [l \in {"base", "sym"} |->
                    IF l = "base" THEN <<s_x, s_ly1, s_y>> ELSE <<s_y, s_z, s_a>>],
     layer_keys |-> <<LayerKeyEntry("sym", <<s_ly1>>, TRUE, s_hold)>>]

\* A layer with no symbol at all.
RawEmptyLayer ==
    [source |-> <<"key_b", "key_a">>,
     layers |-> [l \in {"base", "sym"} |->
                    IF l = "base" THEN <<s_ly1, s_x>> ELSE <<>>],
     layer_keys |-> <<LayerKeyEntry("sym", <<s_ly1>>, TRUE, s_hold)>>]

RawDocs == {DocScenario, RawShortLong, RawDuplicate, RawEmptyLayer}

RefOutcomes == {"intact", "stale", "fault"}

\* loadLayout lines 245-258: the layer brought to sourceLength entries.
resizeLayer(layer, sourceLength) ==
    IF Len(layer) < sourceLength
    THEN layer \o [i \in 1..(sourceLength - Len(layer)) |-> s_empty]
    ELSE SubSeq(layer, 1, sourceLength)

\* loadLayout with every reference intact: the document after the loop.
validateLayers(doc) ==
    [doc EXCEPT !.layers =
        [l \in DOMAIN doc.layers |->
            resizeLayer(doc.layers[l], Cardinality(DOMAIN loadKeyPositions(doc)))]]

InitLoad ==
    /\ stateFile = [exists |-> FALSE, node |-> NoNode]
    /\ state = loadState(stateFile)
    /\ layout \in RawDocs
    /\ keyPositions = [k \in {} |-> 0]
    /\ layerKeys = [k \in {} |-> 0]
    /\ layerState = [current |-> "", toggles |-> [l \in {} |-> FALSE], oneTime |-> "",
                     hold |-> "", holdKey |-> -1]
    /\ toggleOrder = <<>>
    /\ last = Call("none", "", "", nullopt, layerState, "base")
    /\ prev = Older(last)
    /\ pressedHold = {}
    /\ lastHoldKey = -1
    /\ pcLoad = "positions"
    /\ layerIt = {}
    /\ ChannelIdle
    /\ CaptureIdle
    /\ MainIdle
    /\ UtfIdle
    /\ SelectIdle

\* loadLayout lines 221-230: keyPositions is filled from "source".
BuildKeyPositions ==
    /\ pcLoad = "positions"
    /\ keyPositions' = loadKeyPositions(layout)
    /\ layerIt' = DOMAIN layout.layers
    /\ pcLoad' = "layers"
    /\ UNCHANGED <<layout, layerKeys, toggleOrder, layerState, state, stateFile, last, prev,
                   pressedHold, lastHoldKey, chanVars, capVars, mainVars, utfVars, selVars>>

\* loadLayout lines 233-260, one turn of the loop over the layers.
ValidateLayer(layerName, ref) ==
    /\ pcLoad = "layers"
    /\ layerName \in layerIt
    /\ layerIt' = layerIt \ {layerName}
    /\ CASE ref = "intact" ->
                /\ layout' = [layout EXCEPT !.layers[layerName] =
                                  resizeLayer(@, Cardinality(DOMAIN keyPositions))]
                /\ pcLoad' = "layers"
         [] ref = "stale" ->
                /\ layout' = layout
                /\ pcLoad' = "layers"
         [] ref = "fault" ->
                /\ layout' = layout
                /\ pcLoad' = "failed"
    /\ UNCHANGED <<keyPositions, layerKeys, toggleOrder, layerState, state, stateFile, last,
                   prev, pressedHold, lastHoldKey, chanVars, capVars, mainVars, utfVars,
                   selVars>>

\* loadLayout lines 266-325: layerKeys, layerState and the toggles.
LoadLayerKeys ==
    /\ pcLoad = "layers"
    /\ layerIt = {}
    /\ layerKeys' = loadLayerKeys(layout)
    /\ layerState' = initLayerState(layout, state)
    /\ toggleOrder' \in Perms(DOMAIN layerState'.toggles)
    /\ last' = Call("none", "", "", nullopt, layerState', "base")
    /\ prev' = Older(last')
    /\ pcLoad' = "done"
    /\ UNCHANGED <<layout, keyPositions, state, stateFile, pressedHold, lastHoldKey, layerIt,
                   chanVars, capVars, mainVars, utfVars, selVars>>

\* The dispatcher's calls on the layout loaded.
LoadedProcessKey(keyName, eventType) == pcLoad = "done" /\ ProcessKey(keyName, eventType)

LoadedReleaseKey(keyName) == pcLoad = "done" /\ ReleaseKey(keyName)

NextLoad ==
    \/ BuildKeyPositions
    \/ \E l \in layerIt, ref \in RefOutcomes : ValidateLayer(l, ref)
    \/ LoadLayerKeys
    \/ \E k \in InputKeys, e \in {"press", "repeat"} : LoadedProcessKey(k, e)
    \/ \E k \in InputKeys : LoadedReleaseKey(k)

SpecLoad == InitLoad /\ [][NextLoad]_vars

\* loadLayout has returned.
Loaded == pcLoad = "done"

\* The document the file held: "source" is not changed by loadLayout, and no
\* two documents share it.
FileDoc == CHOOSE d \in RawDocs : d.source = layout.source

(***************************************************************************)
(* C33: after loadLayout every layer of the layer table has exactly as     *)
(* many entries as keyPositions has keys: the entries of the file in their *)
(* order, cut after that many, or followed by empty symbols up to that     *)
(* many.                                                                   *)
(***************************************************************************)
C33_LayersSizedToKeyCount ==
    Loaded =>
        \A l \in DOMAIN layout.layers :
            LET n == Cardinality(DOMAIN keyPositions)
                inFile == FileDoc.layers[l]
            IN /\ Len(layout.layers[l]) = n
               /\ \A i \in 1..n :
                      layout.layers[l][i] = IF i <= Len(inFile) THEN inFile[i] ELSE s_empty

\* processKeyEvent's two bounds tests for a key of keyPositions, with
\* currentLayer the layer getCurrentLayer resolves to.
OutOfBounds(keyName, currentLayer) ==
    \/ keyPositions[keyName] >= Len(layout.layers["base"])
    \/ /\ currentLayer \in DOMAIN layout.layers
       /\ keyPositions[keyName] >= Len(layout.layers[currentLayer])

(***************************************************************************)
(* C40: after loadLayout, also for a source list that names a key twice,   *)
(* every position stored in keyPositions is a valid index into every layer *)
(* of the layer table, and no processKeyEvent call on a key of             *)
(* keyPositions meets a position that is out of bounds.                    *)
(***************************************************************************)
C40_PositionsWithinEveryLayer ==
    Loaded =>
        /\ \A k \in DOMAIN keyPositions, l \in DOMAIN layout.layers :
               keyPositions[k] < Len(layout.layers[l])
        /\ (last.op = "process" /\ last.key \in DOMAIN keyPositions) =>
               ~OutOfBounds(last.key, last.cur)

(***************************************************************************)
(* The dispatcher on other layouts than the default one: the layout with a *)
(* hold, a toggle and a onetime layer; the layout whose onetime layer is   *)
(* missing from "layers"; the layout loaded from a source list that names  *)
(* a key twice; and a layout that loadLayout has left with a short layer.  *)
(***************************************************************************)
LayoutFile(name) ==
    [exists |-> TRUE, node |-> [k \in {"layout", "layer"} |->
                                   IF k = "layout" THEN name ELSE "base"]]

NoStateFile == [exists |-> FALSE, node |-> NoNode]

\* RawShortLong after a load in which the changes to sym did not reach it.
LoadedShortLayer ==
    [RawShortLong EXCEPT !.layers["base"] = resizeLayer(@, Len(RawShortLong.source))]

LayerScenarios ==
    {[file |-> LayoutFile("rich"), layout |-> DocRich,
      keys |-> {"key_a", "key_d", "key_leftctrl"}],
     [file |-> LayoutFile("rich"), layout |-> DocRich,
      keys |-> {"key_a", "key_c"}],
     [file |-> LayoutFile("odd"), layout |-> DocOdd,
      keys |-> {"key_a", "key_c", "key_d"}],
     [file |-> NoStateFile, layout |-> validateLayers(RawDuplicate),
      keys |-> {"key_a", "key_b"}],
     [file |-> NoStateFile, layout |-> LoadedShortLayer,
      keys |-> {"key_b", "key_c"}]}

InitDispatchLayers ==
    /\ \E sc \in LayerScenarios :
           /\ stateFile = sc.file
           /\ layout = sc.layout
           /\ usedKeys = sc.keys
    /\ state = loadState(stateFile)
    /\ keyPositions = loadKeyPositions(layout)
    /\ layerKeys = loadLayerKeys(layout)
    /\ layerState = initLayerState(layout, state)
    /\ toggleOrder \in Perms(DOMAIN layerState.toggles)
    /\ last = Call("none", "", "", nullopt, layerState, "base")
    /\ prev = Older(last)
    /\ pressedHold = {}
    /\ lastHoldKey = -1
    /\ ChannelIdle
    /\ CaptureStart
    /\ hasScan = TRUE
    /\ failuresLeft = 0
    /\ OtherIdle

SpecDispatchLayers == InitDispatchLayers /\ [][NextDispatch]_vars

\* The layer getCurrentLayer resolves to before the event is delivered.
ResolvedLayer == getCurrentLayer(layerState, toggleOrder)

\* The cases of C34 as the claim states them, for a key of keyPositions.
NoLayerOrOutOfBounds(keyName) ==
    /\ keyName \in DOMAIN keyPositions
    /\ \/ ResolvedLayer \notin DOMAIN layout.layers
       \/ OutOfBounds(keyName, ResolvedLayer)

\* The key is a layer key whose base symbol processKeyEvent reaches.
ReachesLayerKey(keyName) ==
    /\ keyName \in DOMAIN keyPositions
    /\ keyPositions[keyName] < Len(layout.layers["base"])
    /\ getLayerForKey(layout.layers["base"][keyPositions[keyName] + 1]).isLayerKey

\* main delivers the Press or Repeat event in hand to processKeyEvent and
\* the call returns.
DeliversKeyEvent ==
    /\ pcMain = "key"
    /\ mainEvent.type \in {"Press", "Repeat"}
    /\ pcMain' = "loop"

\* The call returns no character, nothing is sent, LayerState is as before.
NoOutputNoChange ==
    /\ layerState' = layerState
    /\ Len(trace') = Len(trace) + 1
    /\ trace'[Len(trace')].op = "processKeyEvent"
    /\ trace'[Len(trace')].out = nullopt
    /\ trace'[Len(trace')].ok

(***************************************************************************)
(* C34 (as stated): when the resolved current layer has no entry in the    *)
(* layer table, or the key's position is out of bounds for the base layer  *)
(* or for the current layer, processKeyEvent returns no output as a value, *)
(* leaves LayerState unchanged, and the dispatch loop goes on to the next  *)
(* event.                                                                  *)
(***************************************************************************)
C34_NoLayerOrOutOfBoundsNoOutput ==
    [][(DeliversKeyEvent /\ NoLayerOrOutOfBounds(mainEvent.keyName))
           => NoOutputNoChange]_vars

(***************************************************************************)
(* C34 (amended): the same, for a key whose position is out of bounds for  *)
(* the base layer or that is not a layer key; a layer key within the base  *)
(* layer is handled before the current layer is looked up and changes      *)
(* LayerState as it always does.                                           *)
(***************************************************************************)
C34_NoLayerOrOutOfBoundsNoOutputForPlainKey ==
    /\ [][(DeliversKeyEvent /\ NoLayerOrOutOfBounds(mainEvent.keyName)
              /\ ~ReachesLayerKey(mainEvent.keyName))
             => NoOutputNoChange]_vars
    /\ [](\A k \in usedKeys :
             (NoLayerOrOutOfBounds(k) /\ ~ReachesLayerKey(k)) =>
                 \A e \in {"press", "repeat"} :
                     LET r == processKeyEvent(layerState, state, stateFile, toggleOrder,
                                              k, KeyCode(k), e)
                     IN r.out = nullopt /\ r.ls = layerState /\ r.file = stateFile)

\* The missing onetime layer is armed, a press of a plain key has been
\* delivered with no output, and main is back at its loop test.
C34_Witness ==
    /\ layerState.oneTime = "ghost"
    /\ "ghost" \notin DOMAIN layout.layers
    /\ last.op = "process"
    /\ last.key = "key_a"
    /\ last.cur = "ghost"
    /\ last.out = nullopt
    /\ pcMain = "loop"
    /\ trace[Len(trace)].op = "processKeyEvent"

\* A press has met a position out of bounds for the current layer only.
OutOfBoundsInCurrentLayerOnly ==
    /\ last.op = "process"
    /\ last.key \in DOMAIN keyPositions
    /\ keyPositions[last.key] < Len(layout.layers["base"])
    /\ last.cur \in DOMAIN layout.layers
    /\ keyPositions[last.key] >= Len(layout.layers[last.cur])
    /\ ~ReachesLayerKey(last.key)

\* A press has met a position out of bounds for the base layer.
OutOfBoundsInBaseLayer ==
    /\ last.op = "process"
    /\ last.key \in DOMAIN keyPositions
    /\ keyPositions[last.key] >= Len(layout.layers["base"])

\* The last call of the layer engine was processKeyEvent on a toggle key.
ToggleKeyHandled == last.op = "process" /\ IsLayerKeyOfType(last.key, "Toggle")

\* state.yaml holds toggle_T = toggles[T] for every toggle layer T.
FileMirrorsToggles ==
    /\ stateFile.exists
    /\ \A T \in DOMAIN layerState.toggles :
           /\ ToggleKey(T) \in DOMAIN stateFile.node
           /\ stateFile.node[ToggleKey(T)] = BoolText(layerState.toggles[T])

OfToggleKey ==
    /\ ReachesLayerKey(mainEvent.keyName)
    /\ LayerKeyOf(mainEvent.keyName).config.type = "Toggle"

(***************************************************************************)
(* C36: one physical press-and-release of a toggle-type layer key changes  *)
(* the toggle's boolean exactly once: the Press event changes it, and the  *)
(* Repeat events the timer produces while the key is held do not change    *)
(* it again.                                                               *)
(***************************************************************************)
C36_HeldToggleKeyFlipsOnce ==
    [][(DeliversKeyEvent /\ OfToggleKey) =>
          LET T == TargetLayer(mainEvent.keyName)
          IN IF mainEvent.type = "Press"
             THEN layerState'.toggles[T] # layerState.toggles[T]
             ELSE layerState'.toggles = layerState.toggles]_vars

\* The key-downs of data keys among the first n raw events.
DataDowns(n) ==
    {r \in 1..n : rawKeys[r].value = 1 /\ rawKeys[r].code \notin DOMAIN MODIFIER_MAP}

\* The getEvent calls among the first n calls of main that returned a Press.
PressReturns(n) == {i \in 1..n : trace[i].op = "getEvent" /\ trace[i].type = "Press"}

\* The raw key-down that the Press event returned at position i was made
\* from: Press events are pushed one per data key-down and returned in order.
ProducedFrom(i) ==
    CHOOSE r \in DataDowns(Len(rawKeys)) :
        Cardinality(DataDowns(r)) = Cardinality(PressReturns(i))

\* Ctrl, Alt or Super is physically down once the first r raw events have
\* happened.
PhysicalBypass(r) ==
    \E c \in HeldAfter(SubSeq(rawKeys, 1, r)) :
        c \in DOMAIN MODIFIER_MAP /\ MODIFIER_MAP[c] \in {"Ctrl", "Alt", "Super"}

(***************************************************************************)
(* C37: the bypass decision the dispatcher takes for a Press event equals  *)
(* the Ctrl/Alt/Super state physically in effect when the capture loop     *)
(* produced the event, under every interleaving of the two threads: a      *)
(* modifier transition captured after the event and before its dispatch    *)
(* does not change the decision.                                           *)
(***************************************************************************)
C37_BypassAsOfCapture ==
    \A i \in PressReturns(Len(trace)) :
        (i < Len(trace) /\ trace[i + 1].op = "getModifierState") =>
            bypassRemapping(trace[i + 1].mods) = PhysicalBypass(ProducedFrom(i))

\* The events of the given type and key code on the channel before place i.
Before(i, type, code) ==
    {j \in 1..(i - 1) : eventQueue[j].type = type /\ eventQueue[j].keyCode = code}

\* The Press events on the channel before place i.
PressesBefore(i) == {j \in 1..(i - 1) : eventQueue[j].type = "Press"}

(***************************************************************************)
(* C38: in the sequence of events on the channel, a Repeat event of key k  *)
(* that comes after a Release event of k has a Press event of k between    *)
(* the two; and every Repeat event carries the key code of the latest      *)
(* Press event before it.                                                  *)
(***************************************************************************)
C38_RepeatFollowsItsPress ==
    \A i \in DOMAIN eventQueue :
        eventQueue[i].type = "Repeat" =>
            LET k == eventQueue[i].keyCode
            IN /\ \A r \in Before(i, "Release", k) :
                      \E p \in Before(i, "Press", k) : r < p
               /\ PressesBefore(i) # {}
               /\ \A p \in PressesBefore(i) :
                      (\A q \in PressesBefore(i) : q <= p) => eventQueue[p].keyCode = k

\* A key was held until it repeated, released, pressed again and held until
\* it repeated again.
C38_Witness ==
    \E h, r, p, i \in DOMAIN eventQueue :
        /\ h < r /\ r < p /\ p < i
        /\ eventQueue[h].type = "Repeat"
        /\ eventQueue[r].type = "Release"
        /\ eventQueue[p].type = "Press"
        /\ eventQueue[i].type = "Repeat"
        /\ eventQueue[h].keyCode = eventQueue[i].keyCode
        /\ eventQueue[r].keyCode = eventQueue[i].keyCode
        /\ eventQueue[p].keyCode = eventQueue[i].keyCode

(***************************************************************************)
(* C39: while Ctrl, Alt or Super is active, dispatching a Press or Repeat  *)
(* of a key that is not a layer-activation key leaves LayerState           *)
(* unchanged: an armed onetime layer stays armed.                          *)
(***************************************************************************)
C39_BypassLeavesLayerState ==
    [][(/\ DeliversKeyEvent
        /\ bypassRemapping(modifierState)
        /\ ~ReachesLayerKey(mainEvent.keyName)) => layerState' = layerState]_vars

============================================================================
